---- MODULE Spec2Model ----
(***************************************************************************)
(* UsageBar: provider orchestration (ProviderManager), the provider        *)
(* adapters' fetch() control flow, withRetry and CircuitBreaker.           *)
(*                                                                         *)
(* Three specifications share the module:                                  *)
(*   Spec         ProviderManager + the eight registered providers         *)
(*   SpecFair     Spec with the fairness the JS event loop gives           *)
(*   SpecRetry    withRetry driven by a script of operation outcomes       *)
(*   SpecBreaker  CircuitBreaker with a discrete clock and in-flight calls *)
(***************************************************************************)
EXTENDS Integers, Sequences, FiniteSets, TLC

VARIABLES
    enabled,        \* settings store: enabledProviders
    latestUsage,    \* ProviderManager.latestUsage
    call,           \* refreshAll()/refreshProvider() invocations
    store,          \* per provider: the session/token file in userData
    rCfg,           \* withRetry: options and the outcomes fn will produce
    rPc,            \* withRetry: control point
    rAttempt,       \* withRetry: loop variable attempt
    rInv,           \* withRetry: number of invocations of fn so far
    rSleeps,        \* withRetry: number of backoff sleeps so far
    rOut,           \* withRetry: what the returned promise settled with
    rLog,           \* withRetry: the duration of each backoff sleep so far, in ms
    bCfg,           \* CircuitBreaker: failureThreshold, successThreshold, timeout
    bState,         \* CircuitBreaker.state
    failureCount,   \* CircuitBreaker.failureCount
    successCount,   \* CircuitBreaker.successCount
    lastFailureTime,\* CircuitBreaker.lastFailureTime
    now,            \* Date.now()
    inflight,       \* execute() calls whose fn() is awaiting
    opCalls,        \* number of times a wrapped operation was invoked
    bLog,           \* history: last breaker event and consecutive failures
    norm,           \* a raw payload and the record its provider makes of it
    cred,           \* one getToken() call: what it can read and what it returns
    fx,             \* one provider.fetch() call, with the answers it received
    lg,             \* one provider's login flows: windows, timers, checks in flight
    view            \* what a caller of getLatestUsage() holds

vars == <<enabled, latestUsage, call, store,
          rCfg, rPc, rAttempt, rInv, rSleeps, rOut, rLog,
          bCfg, bState, failureCount, successCount, lastFailureTime,
          now, inflight, opCalls, bLog, norm, cred, fx, lg, view>>

orchVars == <<enabled, latestUsage, call, store>>
retryVars == <<rCfg, rPc, rAttempt, rInv, rSleeps, rOut, rLog>>
breakerVars == <<bCfg, bState, failureCount, successCount, lastFailureTime,
                 now, inflight, opCalls, bLog>>
normVars == <<norm>>
adapterVars == <<cred, fx, lg>>
viewVars == <<view>>

(***************************************************************************)
(* Bounds                                                                  *)
(***************************************************************************)
MaxCalls == 1          \* refreshAll/refreshProvider invocations per behaviour
MaxIds == 2            \* distinct provider ids one behaviour is about
MaxAttemptsBound == 3  \* largest maxAttempts handed to withRetry
MaxThreshold == 2      \* largest failureThreshold / successThreshold
MaxTimeout == 2        \* largest breaker timeout, in clock ticks
MaxTicks == 4          \* clock ticks per behaviour
MaxOps == 4            \* execute() calls admitted per behaviour
MaxInflight == 2       \* execute() calls awaiting fn() at once
MaxQuotas == 4
MaxFlows == 2
MaxPollAttempts == 2
MaxPairCalls == 2      \* overlapping refreshAll/refreshProvider invocations
MaxCycles == 6         \* model quotas in one language-server response

(***************************************************************************)
(* ProviderUsage records.  Optional fields are sequences: <<>> is          *)
(* undefined, <<v>> is the value v.                                        *)
(***************************************************************************)
None == <<>>
Some(v) == <<v>>

Usage3(id, pri, sec, ter, err, nl) ==
    [providerId |-> id, primary |-> pri, secondary |-> sec, tertiary |-> ter,
     error |-> err, needsLogin |-> nl]

\* a slip that puts a zero-usage window into the records that ask for a login
UsageWithPlaceholder(id, pri, sec, err, nl) ==
    Usage3(id, IF nl = Some(TRUE) THEN Some(0) ELSE pri, sec, None, err, nl)

Usage(id, pri, sec, err, nl) == Usage3(id, pri, sec, None, err, nl)

Return(rec) == [kind |-> "return", rec |-> Some(rec), msg |-> None]
Raise(m) == [kind |-> "raise", rec |-> None, msg |-> Some(m)]

\* the ids registered by the ProviderManager constructor
Registered == {"antigravity", "claude", "codex", "copilot",
               "cursor", "gemini", "factory", "zai"}

\* an id a config file can hold that no provider is registered under
Unregistered == {"unknown"}

AllIds == Registered \cup Unregistered

(***************************************************************************)
(* What the outside world answers.  An HTTP exchange ends with a status    *)
(* or with no response at all ("neterr": timeout, DNS, refused).           *)
(***************************************************************************)
Http == {"200", "401", "403", "404", "429", "500", "neterr"}

\* what stands for the non-finite numbers (Infinity, NaN) of a division by 0
NonFinite == 1000000

\* used / limit * 100; the payloads below keep the quotient exact
Pct(used, limit) == IF limit = 0 THEN NonFinite ELSE (used * 100) \div limit

\* a test that takes every limit for a usable divisor
TruthyAlways(n) == TRUE

\* JavaScript truthiness of a number: `limit ? ... : 0`
Truthy(n) == n # 0

\* JavaScript a || b on numbers: 0 (and undefined, modelled as 0) is falsy
OrElse(a, b) == IF a # 0 THEN a ELSE b

Max2(a, b) == IF a >= b THEN a ELSE b
Min2(a, b) == IF a <= b THEN a ELSE b

\* result of one step of a provider's fetch(): the provider's stored
\* session afterwards, and either the next suspension point or the outcome.
\* Consecutive awaits that touch neither the stored session nor the cache
\* are taken in one step, with one answer of the outside world for each.
Goto(st, p) == [st |-> st, phase |-> p, out |-> None]
Done(st, o) == [st |-> st, phase |-> "done", out |-> Some(o)]

NoEnv == [net |-> "neterr", net2 |-> "neterr", ok |-> FALSE, ok2 |-> FALSE,
          cred |-> FALSE, src |-> "none", body |-> None]

(***************************************************************************)
(* Claude (src/main/providers/claude.ts)                                   *)
(***************************************************************************)
\* ClaudeUsageResponse: session_usage.percent_remaining, usage.session.percent_used,
\* weekly_usage.percent_remaining, usage.weekly.percent_used (each optional)
ClaudePayloads ==
    { [sr |-> Some(58), su |-> None, wr |-> None, wu |-> None],
      [sr |-> None, su |-> Some(42), wr |-> None, wu |-> Some(10)],
      [sr |-> None, su |-> None, wr |-> None, wu |-> None] }

ClaudeParseUsageResponse(d) ==
    LET sessionPercent ==
            IF d.sr # None THEN 100 - OrElse(d.sr[1], 0)
            ELSE IF d.su # None THEN OrElse(d.su[1], 0)
            ELSE 0
        weekly ==
            IF d.wr # None THEN Some(100 - OrElse(d.wr[1], 0))
            ELSE IF d.wu # None THEN Some(OrElse(d.wu[1], 0))
            ELSE None
    IN  Usage("claude", Some(sessionPercent), weekly, None, None)

\* getCookieHeader(): the synchronous prefix of fetch().  The header is made
\* of the cookies that have not expired; the file goes when none is left.
ClaudeBegin(st) ==
    IF st \in {"valid", "stale"} THEN Goto(st, "net")
    ELSE IF st = "expired" THEN Goto("none", "cli")
    ELSE Goto(st, "cli")

\* net: claude.ai/api/usage answers (env.net), net2: console.anthropic.com/api/usage
\* answers (env.net2), cli: `claude --version` ran (env.ok)
ClaudeEnvs(phase) ==
    IF phase = "cli" THEN { [NoEnv EXCEPT !.ok = b] : b \in BOOLEAN }
    ELSE IF phase = "net" THEN
         { [NoEnv EXCEPT !.net = h] : h \in Http \ {"200"} }
         \cup { [NoEnv EXCEPT !.net = "200", !.body = Some(d)] : d \in ClaudePayloads }
    ELSE { [NoEnv EXCEPT !.net2 = g] : g \in Http \ {"200"} }
         \cup { [NoEnv EXCEPT !.net2 = "200", !.body = Some(d)] : d \in ClaudePayloads }

\* fetchFromClaudeAi / fetchFromConsole: the parsed record for a 200, null
\* for every other status and for a request that failed
ClaudeSourceResult(status, body) ==
    IF status = "200" THEN Some(ClaudeParseUsageResponse(body[1])) ELSE None

\* a fetch() that takes an unauthorized answer of claude.ai for the end of
\* the session instead of asking the console
ClaudeStepStopsAtUnauthorized(phase, st, env) ==
    IF phase = "net" THEN
        IF env.net \in {"401", "403"}
        THEN Done("none", Return(Usage("claude", None, None,
                 Some("Sign in with Claude Max/Pro to view usage"), Some(TRUE))))
        ELSE IF ClaudeSourceResult(env.net, env.body) # None
        THEN Done(st, Return(ClaudeSourceResult(env.net, env.body)[1]))
        ELSE Goto(st, "net2")
    ELSE IF phase = "net2" THEN
        IF ClaudeSourceResult(env.net2, env.body) # None
        THEN Done(st, Return(ClaudeSourceResult(env.net2, env.body)[1]))
        ELSE Done(st, Return(Usage("claude", None, None,
                 Some("Logged in. Usage API not available for your plan."), Some(FALSE))))
    ELSE
        IF env.ok THEN Done(st, Return(Usage("claude", None, None,
                 Some("Claude CLI detected. Paid plan (Claude Max/Pro) required to view usage."),
                 Some(TRUE))))
        ELSE Done(st, Return(Usage("claude", None, None,
                 Some("Sign in with Claude Max/Pro to view usage"), Some(TRUE))))

ClaudeStep(phase, st, env) ==
    IF phase = "net" THEN
        \* fetchFromClaudeAi
        LET claudeAiResult == ClaudeSourceResult(env.net, env.body)
        IN  IF claudeAiResult # None THEN Done(st, Return(claudeAiResult[1]))
            ELSE Goto(st, "net2")
    ELSE IF phase = "net2" THEN
        \* fetchFromConsole, then the "logged in" record
        LET consoleResult == ClaudeSourceResult(env.net2, env.body)
        IN  IF consoleResult # None THEN Done(st, Return(consoleResult[1]))
            ELSE Done(st, Return(Usage("claude", None, None,
                     Some("Logged in. Usage API not available for your plan."), Some(FALSE))))
    ELSE
        \* detectCLIVersion
        IF env.ok THEN Done(st, Return(Usage("claude", None, None,
                 Some("Claude CLI detected. Paid plan (Claude Max/Pro) required to view usage."),
                 Some(TRUE))))
        ELSE Done(st, Return(Usage("claude", None, None,
                 Some("Sign in with Claude Max/Pro to view usage"), Some(TRUE))))

(***************************************************************************)
(* Cursor (src/unnamed/part_004)                                           *)
(***************************************************************************)
\* CursorUsageSummary: individualUsage.plan.{used,limit,totalPercentUsed},
\* the "N requests remaining" display message, individualUsage.onDemand
CursorPayloads ==
    { [used |-> 21, limit |-> 50, tpu |-> None, msg |-> None, odUsed |-> 0, odLimit |-> 0],
      [used |-> 0, limit |-> 0, tpu |-> Some(42), msg |-> None, odUsed |-> 5, odLimit |-> 10],
      [used |-> 0, limit |-> 0, tpu |-> None, msg |-> Some(29), odUsed |-> 0, odLimit |-> 0] }

CursorParseUsageSummary(s) ==
    LET p1 == IF s.limit > 0 THEN Pct(s.used, s.limit)
              ELSE IF s.tpu # None
                   THEN (IF s.tpu[1] <= 1 THEN s.tpu[1] * 100 ELSE s.tpu[1])
                   ELSE 0
        p2 == IF p1 = 0 /\ s.msg # None THEN Pct(50 - s.msg[1], 50) ELSE p1
        secondary == IF s.odLimit > 0 THEN Some(Pct(s.odUsed, s.odLimit)) ELSE None
    IN  Usage("cursor", Some(p2), secondary, None, None)

CursorBegin(st) ==
    IF st \in {"valid", "stale"} THEN Goto(st, "net")
    ELSE IF st = "expired" THEN Goto("none", "nocred")
    ELSE Goto(st, "nocred")

CursorEnvs(phase) ==
    IF phase = "nocred" THEN {NoEnv}
    ELSE { [NoEnv EXCEPT !.net = h] : h \in Http \ {"200"} }
         \cup { [NoEnv EXCEPT !.net = "200", !.body = Some(d)] : d \in CursorPayloads }
         \cup { [NoEnv EXCEPT !.net = "200"] }      \* 200 with an empty body

CursorStep(phase, st, env) ==
    IF phase = "nocred" THEN
        Done(st, Return(Usage("cursor", None, None,
             Some("Click \"Sign in to Cursor\" to connect your account"), Some(TRUE))))
    ELSE IF env.net \in {"500", "neterr"} THEN
        \* fetchUsageSummary rethrows, fetch()'s catch builds the record
        Done(st, Return(Usage("cursor", None, None,
             Some(IF env.net = "500" THEN "Request failed with status code 500"
                  ELSE "Network Error"), None)))
    ELSE IF env.net = "200" /\ env.body # None THEN
        Done(st, Return(CursorParseUsageSummary(env.body[1])))
    ELSE
        \* usageSummary is null (or empty): clearStoredSession()
        Done("none", Return(Usage("cursor", None, None,
             Some("Session expired. Click \"Sign in to Cursor\" to reconnect."), Some(TRUE))))

(***************************************************************************)
(* Copilot (src/main/providers/copilot.ts)                                 *)
(***************************************************************************)
\* CopilotUsageResponse: quota_snapshots.premiumInteractions.percent_remaining,
\* quota_snapshots.chat.percent_remaining, monthly_quotas.chat
CopilotPayloads ==
    { [premium |-> Some(58), chat |-> Some(100), monthly |-> None],
      [premium |-> None, chat |-> None, monthly |-> Some(50)],
      [premium |-> None, chat |-> None, monthly |-> None] }

CopilotParse(d) ==
    LET prem == IF d.premium # None
                THEN Some(Max2(0, 100 - OrElse(d.premium[1], 0))) ELSE None
        chat == IF d.chat # None
                THEN Some(Max2(0, 100 - OrElse(d.chat[1], 0))) ELSE None
        free == prem = None /\ d.monthly # None
        primary == IF prem # None THEN prem ELSE Some(0)
        secondary == IF free THEN (IF d.monthly[1] > 0 THEN Some(0) ELSE chat) ELSE chat
    IN  Usage("copilot", primary, secondary, None, None)

\* getToken(): a stored token is returned at once ("login": the token file
\* was written by a device flow, "valid": by anything earlier)
CopilotBegin(st) ==
    IF st \in {"valid", "login"} THEN Goto(st, "net") ELSE Goto(st, "resolve")

CopilotEnvs(phase) ==
    IF phase = "resolve" THEN { [NoEnv EXCEPT !.src = s] : s \in {"env", "gh", "none"} }
    ELSE { [NoEnv EXCEPT !.net = h] : h \in Http \ {"200"} }
         \cup { [NoEnv EXCEPT !.net = "200", !.body = Some(d)] : d \in CopilotPayloads }

CopilotStep(phase, st, env) ==
    IF phase = "resolve" THEN
        \* GITHUB_TOKEN, then `gh auth token` (whose token is saved)
        IF env.src = "env" THEN Goto(st, "net")
        ELSE IF env.src = "gh" THEN Goto("valid", "net")
        ELSE Done(st, Return(Usage("copilot", None, None,
                 Some("Click \"Sign in to Copilot\" to connect your GitHub account"),
                 Some(TRUE))))
    ELSE
        \* fetchUsage(token)
        IF env.net \in {"401", "403"} THEN
            Done("none", Return(Usage("copilot", None, None,
                 Some("Token expired. Click \"Sign in to Copilot\" to reconnect."), Some(TRUE))))
        ELSE IF env.net = "404" THEN
            Done("none", Return(Usage("copilot", None, None,
                 Some("Copilot not enabled. Sign in with a Copilot-enabled account."),
                 Some(TRUE))))
        ELSE IF env.net = "200" THEN Done(st, Return(CopilotParse(env.body[1])))
        ELSE IF env.net = "429" THEN
            \* a status below 500 is parsed like a 200: no quota fields
            Done(st, Return(CopilotParse([premium |-> None, chat |-> None, monthly |-> None])))
        ELSE
            Done(st, Return(Usage("copilot", None, None,
                 Some(IF env.net = "500" THEN "Request failed with status code 500"
                      ELSE "Network Error"), None)))

(***************************************************************************)
(* z.ai (src/main/providers/zai.ts)                                        *)
(***************************************************************************)
\* ZaiUsageResponse: quota.{percent_used,used,limit} and mcp.windows[0].{used,limit}
\* (both optional; a number that is absent is 0)
ZaiPayloads ==
    { [quota |-> Some([percent_used |-> 42, used |-> 0, limit |-> 0]), mcp |-> None],
      [quota |-> Some([percent_used |-> 0, used |-> 21, limit |-> 50]),
       mcp |-> Some([used |-> 5, limit |-> 10])],
      [quota |-> None, mcp |-> None] }

ZaiParse(d) ==
    LET q == d.quota[1]
        m == d.mcp[1]
        primary == IF d.quota # None
                   THEN Some(OrElse(q.percent_used,
                                    IF Truthy(q.limit) THEN Pct(q.used, q.limit) ELSE 0))
                   ELSE None
        secondary == IF d.mcp # None
                     THEN Some(IF Truthy(m.limit) THEN Pct(m.used, m.limit) ELSE 0)
                     ELSE None
    IN  Usage("zai", primary, secondary, None, None)

ZaiBegin(st) == Goto(st, "net")

\* cred: getToken() found ZAI_API_TOKEN or a config file token
ZaiEnvs(phase) ==
    { [NoEnv EXCEPT !.cred = FALSE] }
    \cup { [NoEnv EXCEPT !.cred = TRUE, !.net = h] : h \in Http \ {"200"} }
    \cup { [NoEnv EXCEPT !.cred = TRUE, !.net = "200", !.body = Some(d)] : d \in ZaiPayloads }

AxiosMessage(h) ==
    IF h = "neterr" THEN "Network Error" ELSE "Request failed with status code " \o h

ZaiStep(phase, st, env) ==
    IF ~env.cred THEN
        Done(st, Return(Usage("zai", None, None,
             Some("Set ZAI_API_TOKEN or configure in settings"), Some(TRUE))))
    ELSE IF env.net = "200" THEN Done(st, Return(ZaiParse(env.body[1])))
    ELSE IF env.net = "401" THEN
        Done(st, Return(Usage("zai", None, None, Some("z.ai token invalid or expired."), None)))
    ELSE
        \* fetchUsage rethrows, fetch()'s catch builds the record
        Done(st, Return(Usage("zai", None, None, Some(AxiosMessage(env.net)), Some(TRUE))))

(***************************************************************************)
(* Factory (src/main/providers/factory.ts)                                 *)
(***************************************************************************)
\* FactoryUsageResponse: usage.current.{percent,used,limit} (current optional)
FactoryPayloads ==
    { [current |-> Some([percent |-> 42, used |-> 0, limit |-> 0])],
      [current |-> Some([percent |-> 0, used |-> 21, limit |-> 50])],
      [current |-> None] }

FactoryParse(d) ==
    LET u == d.current[1]
        primary == IF d.current # None
                   THEN Some(OrElse(u.percent,
                                    IF Truthy(u.limit) THEN Pct(u.used, u.limit) ELSE 0))
                   ELSE None
    IN  Usage("factory", primary, None, None, None)

FactoryBegin(st) == Goto(st, "net")

\* cred: readCredentials() found an accessToken or workosToken
FactoryEnvs(phase) ==
    { [NoEnv EXCEPT !.cred = FALSE] }
    \cup { [NoEnv EXCEPT !.cred = TRUE, !.net = h] : h \in Http \ {"200"} }
    \cup { [NoEnv EXCEPT !.cred = TRUE, !.net = "200", !.body = Some(d)] : d \in FactoryPayloads }

FactoryStep(phase, st, env) ==
    IF ~env.cred THEN
        Done(st, Raise("Factory credentials not found. Login via Factory app."))
    ELSE IF env.net = "200" THEN Done(st, Return(FactoryParse(env.body[1])))
    ELSE IF env.net = "401" THEN
        Done(st, Return(Usage("factory", None, None,
             Some("Factory session expired. Please login again."), None)))
    ELSE
        \* fetchUsage rethrows and fetch()'s catch throws a new Error
        Done(st, Raise(AxiosMessage(env.net)))

(***************************************************************************)
(* Gemini (src/unnamed/part_003)                                           *)
(***************************************************************************)
\* GeminiQuotaResponse: the first quota whose metric includes "requests" and
\* the first whose metric includes "tokens"
GeminiPayloads ==
    { [requests |-> Some([usage |-> 21, limit |-> 50]), tokens |-> None],
      [requests |-> Some([usage |-> 7, limit |-> 0]),
       tokens |-> Some([usage |-> 5, limit |-> 10])],
      [requests |-> None, tokens |-> None] }

\* limit ? (usage || 0) / limit * 100 : 0, for a quota that is present
GeminiWindow(x) ==
    IF x # None
    THEN Some(IF Truthy(x[1].limit) THEN Pct(x[1].usage, x[1].limit) ELSE 0)
    ELSE None

\* fetchWithOAuth
GeminiParse(d) == Usage("gemini", GeminiWindow(d.requests), GeminiWindow(d.tokens), None, None)

\* fetchWithCLI: `gemini quota --json` gives the requests quota only
GeminiParseCLI(d) == Usage("gemini", GeminiWindow(d.requests), None, None, None)

GeminiBegin(st) == Goto(st, "net")

\* ok: `gemini --version` ran, cred: credentials.json holds an access_token,
\* net: the quota API, ok2: `gemini quota --json` ran and printed JSON
GeminiEnvs(phase) ==
    { [NoEnv EXCEPT !.ok = FALSE] }
    \cup { [NoEnv EXCEPT !.ok = TRUE, !.cred = TRUE, !.net = "200", !.body = Some(d)] :
               d \in GeminiPayloads }
    \cup { [NoEnv EXCEPT !.ok = TRUE, !.cred = c, !.net = h, !.ok2 = TRUE, !.body = Some(d)] :
               c \in BOOLEAN, h \in {"401", "neterr"}, d \in GeminiPayloads }
    \cup { [NoEnv EXCEPT !.ok = TRUE, !.cred = c, !.net = h] :
               c \in BOOLEAN, h \in {"401", "neterr"} }

GeminiStep(phase, st, env) ==
    \* detectVersion
    IF ~env.ok THEN Done(st, Raise("Gemini CLI not found. Install it from Google."))
    \* readCredentials, fetchWithOAuth
    ELSE IF env.cred /\ env.net = "200" THEN Done(st, Return(GeminiParse(env.body[1])))
    \* fetchWithCLI, directly or as the fallback of fetchWithOAuth
    ELSE IF env.ok2 THEN Done(st, Return(GeminiParseCLI(env.body[1])))
    ELSE Done(st, Return(Usage("gemini", None, None,
             Some("Could not fetch Gemini quota. Run \"gemini login\" to authenticate."),
             None)))

(***************************************************************************)
(* Codex (src/unnamed/part_005)                                            *)
(***************************************************************************)
\* CodexRPCResponse.primary.usedPercent / the "session: N%" line of `codex status`
CodexPayloads ==
    { [primary |-> Some(42), secondary |-> Some(10)],
      [primary |-> None, secondary |-> None] }

CodexParse(d) == Usage("codex", d.primary, d.secondary, None, None)

CodexBegin(st) == Goto(st, "net")

\* ok: `codex --version` ran, src: which data source answered
CodexEnvs(phase) ==
    { [NoEnv EXCEPT !.ok = FALSE] }
    \cup { [NoEnv EXCEPT !.ok = TRUE, !.src = "none"] }
    \cup { [NoEnv EXCEPT !.ok = TRUE, !.src = r, !.body = Some(d)] :
               r \in {"rpc", "pty"}, d \in CodexPayloads }

CodexStep(phase, st, env) ==
    \* detectVersion
    IF ~env.ok THEN Done(st, Raise("Codex CLI not found. Install it from OpenAI."))
    \* fetchWithRPC; a rejection falls back to fetchWithPTY
    ELSE IF env.src \in {"rpc", "pty"} THEN Done(st, Return(CodexParse(env.body[1])))
    ELSE Done(st, Return(Usage("codex", None, None,
             Some("Could not fetch usage. Run \"codex login\" to authenticate."), None)))

(***************************************************************************)
(* Antigravity (src/unnamed/part_006)                                      *)
(***************************************************************************)
\* the lower-cased words a model label contains
LabelWords(label) ==
    CASE label = "Claude Sonnet 4.5" -> {"claude"}
      [] label = "Claude Sonnet 4.5 (Thinking)" -> {"claude", "thinking"}
      [] label = "Gemini 3 Pro (Low)" -> {"gemini", "pro", "low"}
      [] label = "Gemini 3 Pro (High)" -> {"gemini", "pro"}
      [] label = "Gemini 3 Flash" -> {"gemini", "flash"}
      [] label = "Claude Pro (Low)" -> {"claude", "pro", "low"}
      [] OTHER -> {}

\* ModelQuota: label and remainingFraction in hundredths (optional)
Quota(l, r) == [label |-> l, rem |-> r]

AntigravityPayloads ==
    { << Quota("Gemini 3 Flash", Some(90)), Quota("Claude Sonnet 4.5", Some(58)),
         Quota("Gemini 3 Pro (Low)", Some(73)) >>,
      << Quota("GPT-OSS 120B", Some(80)), Quota("Gemini 3 Pro (High)", Some(27)),
         Quota("Claude Sonnet 4.5 (Thinking)", None), Quota("GPT-OSS 20B", Some(50)) >>,
      << >> }

\* Array.prototype.find: the first element satisfying the test, or none
RECURSIVE FindFirst(_, _)
FindFirst(qs, words) ==
    IF qs = << >> THEN None
    ELSE IF words \subseteq LabelWords(Head(qs).label) THEN Some(Head(qs))
    ELSE FindFirst(Tail(qs), words)

RECURSIVE FindClaude(_)
FindClaude(qs) ==
    IF qs = << >> THEN None
    ELSE IF "claude" \in LabelWords(Head(qs).label)
            /\ "thinking" \notin LabelWords(Head(qs).label) THEN Some(Head(qs))
    ELSE FindClaude(Tail(qs))

RemOrZero(q) == IF q.rem = None THEN 0 ELSE q.rem[1]

\* stable insertion of q into a list sorted by (remainingFraction || 0)
RECURSIVE InsertByRem(_, _)
InsertByRem(q, sorted) ==
    IF sorted = << >> THEN << q >>
    ELSE IF RemOrZero(q) < RemOrZero(Head(sorted)) THEN << q >> \o sorted
    ELSE << Head(sorted) >> \o InsertByRem(q, Tail(sorted))

RECURSIVE SortByRem(_)
SortByRem(qs) ==
    IF qs = << >> THEN << >>
    ELSE InsertByRem(qs[Len(qs)], SortByRem(SubSeq(qs, 1, Len(qs) - 1)))

HasLabel(sel, q) == \E i \in 1..Len(sel) : sel[i].label = q.label

\* a selection that takes the first three quotas as they come
selectModelsInOrder(quotas) == SubSeq(quotas, 1, IF Len(quotas) < 3 THEN Len(quotas) ELSE 3)

selectModels(quotas) ==
    LET claude == FindClaude(quotas)
        proPlow == FindFirst(quotas, {"pro", "low"})
        flash == FindFirst(quotas, {"gemini", "flash"})
        s1 == claude
        s2 == IF proPlow # None /\ ~HasLabel(s1, proPlow[1]) THEN s1 \o proPlow ELSE s1
        s3 == IF flash # None /\ ~HasLabel(s2, flash[1]) THEN s2 \o flash ELSE s2
        sorted == SortByRem(quotas)
    IN  IF s3 = << >> THEN SubSeq(sorted, 1, Min2(3, Len(sorted))) ELSE s3

\* a conversion without Math.max / Math.min
quotaToRateWindowUnclamped(q) == 100 - (IF q.rem # None THEN q.rem[1] ELSE 0)

quotaToRateWindow(q) ==
    LET remainingPercent == IF q.rem # None THEN Max2(0, Min2(100, q.rem[1])) ELSE 0
    IN  100 - remainingPercent

AntigravityParseUserStatus(quotas) ==
    LET sel == selectModels(quotas)
        win(i) == IF Len(sel) >= i THEN Some(quotaToRateWindow(sel[i])) ELSE None
    IN  Usage3("antigravity", win(1), win(2), win(3), None, None)

AntigravityBegin(st) == Goto(st, "net")

\* src: the first stage of fetch() that fails, "none" if all succeed;
\* body: the userStatus of the response, if it has one
AntigravityEnvs(phase) ==
    { [NoEnv EXCEPT !.src = f] : f \in {"detect", "ports", "probe", "request", "none"} }
    \cup { [NoEnv EXCEPT !.src = "none", !.body = Some(d)] : d \in AntigravityPayloads }

AntigravityStep(phase, st, env) ==
    IF env.src = "detect" THEN
        Done(st, Raise("Antigravity/Codeium language server not detected. Launch Windsurf/VS Code and retry."))
    ELSE IF env.src = "ports" THEN Done(st, Raise("Failed to detect Antigravity ports"))
    ELSE IF env.src = "probe" THEN Done(st, Raise("No working API port found for Antigravity"))
    ELSE IF env.src = "request" THEN Done(st, Raise("Failed to connect to Antigravity API"))
    \* parseUserStatus
    ELSE IF env.body = None THEN Done(st, Raise("Missing userStatus in response"))
    ELSE Done(st, Return(AntigravityParseUserStatus(env.body[1])))

(***************************************************************************)
(* Provider interface: dispatch on the provider id                         *)
(***************************************************************************)
\* the session file a provider keeps in userData, if it keeps one.  A cookie
\* file is "valid" when its session cookie has not expired, "expired" when
\* every cookie in it has, "stale" when the session cookie has expired and
\* some other cookie of the site has not (or carries no expirationDate).
StoreVals(id) ==
    IF id \in {"claude", "cursor"} THEN {"none", "valid", "expired", "stale"}
    ELSE IF id = "copilot" THEN {"none", "valid"}
    ELSE {"none"}

FetchBegin(id, st) ==
    CASE id = "claude" -> ClaudeBegin(st)
      [] id = "cursor" -> CursorBegin(st)
      [] id = "copilot" -> CopilotBegin(st)
      [] id = "zai" -> ZaiBegin(st)
      [] id = "factory" -> FactoryBegin(st)
      [] id = "gemini" -> GeminiBegin(st)
      [] id = "codex" -> CodexBegin(st)
      [] id = "antigravity" -> AntigravityBegin(st)

FetchEnvs(id, phase) ==
    CASE id = "claude" -> ClaudeEnvs(phase)
      [] id = "cursor" -> CursorEnvs(phase)
      [] id = "copilot" -> CopilotEnvs(phase)
      [] id = "zai" -> ZaiEnvs(phase)
      [] id = "factory" -> FactoryEnvs(phase)
      [] id = "gemini" -> GeminiEnvs(phase)
      [] id = "codex" -> CodexEnvs(phase)
      [] id = "antigravity" -> AntigravityEnvs(phase)

FetchStep(id, phase, st, env) ==
    CASE id = "claude" -> ClaudeStep(phase, st, env)
      [] id = "cursor" -> CursorStep(phase, st, env)
      [] id = "copilot" -> CopilotStep(phase, st, env)
      [] id = "zai" -> ZaiStep(phase, st, env)
      [] id = "factory" -> FactoryStep(phase, st, env)
      [] id = "gemini" -> GeminiStep(phase, st, env)
      [] id = "codex" -> CodexStep(phase, st, env)
      [] id = "antigravity" -> AntigravityStep(phase, st, env)

(***************************************************************************)
(* ProviderManager (src/unnamed/part_008)                                  *)
(***************************************************************************)
Calls == 1..MaxCalls

\* the ids the behaviour has been about so far
Seen == enabled \cup UNION { call[c].ids : c \in DOMAIN call }

\* an id set the behaviour may turn to next
InScope(S) == Cardinality(S \cup Seen) <= MaxIds

\* the values the settings store can hold for enabledProviders
EnabledChoices == { S \in SUBSET AllIds : Cardinality(S) <= MaxIds }

IdleCall ==
    [kind |-> "none", status |-> "idle", ids |-> {}, pend |-> {},
     phase |-> [i \in Registered |-> "idle"],
     out |-> [i \in Registered |-> None],
     ret |-> None]

\* a catch block that forgets whose failure it records
ErrorRecordAnonymous(id, message) == Usage("unknown", None, None, Some(message), None)

\* the record the catch blocks of refreshAll/refreshProvider synthesize
ErrorRecord(id, message) == Usage(id, None, None, Some(message), None)

\* a write that fills the windows a new record lacks from the entry it replaces
CacheMerge(cache, id, rec) ==
    [cache EXCEPT ![id] =
        IF cache[id] # None /\ rec.primary = None
        THEN Some([rec EXCEPT !.primary = cache[id][1].primary,
                              !.secondary = cache[id][1].secondary,
                              !.tertiary = cache[id][1].tertiary])
        ELSE Some(rec)]

\* a write that copies the new record's fields onto the entry and keeps the
\* old error when the new record has none
CacheAssignFields(cache, id, rec) ==
    [cache EXCEPT ![id] =
        IF cache[id] # None /\ rec.error = None
        THEN Some([rec EXCEPT !.error = cache[id][1].error])
        ELSE Some(rec)]

\* a slip that replaces the whole cache object instead of setting one key
CacheReplace(cache, id, rec) == [i \in DOMAIN cache |-> IF i = id THEN Some(rec) ELSE None]

\* this.latestUsage[providerId] = ...
CacheWrite(cache, id, rec) == [cache EXCEPT ![id] = Some(rec)]

\* the record the caller's try/catch ends with for this outcome of fetch()
TaskRecord(id, outcome) ==
    IF outcome.kind = "return" THEN outcome.rec[1]
    ELSE ErrorRecord(id, outcome.msg[1])

\* a task that holds its result back while another task is still fetching
TaskCacheWhenLast(cache, id, outcome) ==
    IF \E c \in DOMAIN call : call[c].pend \ {id} # {}
    THEN cache
    ELSE CacheWrite(cache, id, TaskRecord(id, outcome))

\* a task without the catch block: a raised fetch() writes nothing
TaskCacheNoCatch(cache, id, outcome) ==
    IF outcome.kind = "return" THEN CacheWrite(cache, id, outcome.rec[1]) ELSE cache

\* the try/catch around provider.fetch(): the cache after the task
TaskCache(cache, id, outcome) == CacheWrite(cache, id, TaskRecord(id, outcome))

\* a catch block that caches the error record and returns null
TaskReturnNull(id, outcome) ==
    IF outcome.kind = "return" THEN outcome.rec ELSE None

\* what refreshProvider() returns for this outcome of fetch()
TaskReturn(id, outcome) == Some(TaskRecord(id, outcome))

\* a refreshAll that returns without awaiting its tasks
JoinNoAwait(c) == TRUE

\* the test that lets `await Promise.all(promises)` continue
JoinReady(c) == call[c].pend = {}

\* settings.setEnabledProviders(providers)
SetEnabledProviders(S) ==
    /\ S \in EnabledChoices
    /\ InScope(S)
    /\ S # enabled
    /\ \E c \in DOMAIN call : call[c].status = "idle"
    /\ enabled' = S
    /\ UNCHANGED <<latestUsage, call, store, retryVars, breakerVars, normVars, adapterVars, viewVars>>

\* call slots are taken in order
FreeSlot(c) ==
    /\ call[c].status = "idle"
    /\ \A d \in DOMAIN call : d < c => call[d].status # "idle"

\* a manager that keeps the enabled set its first refreshAll() read
GetEnabledProvidersCached ==
    IF \E c \in DOMAIN call : call[c].kind = "all"
    THEN call[CHOOSE c \in DOMAIN call : call[c].kind = "all"].ids
    ELSE enabled

\* settings.getEnabledProviders()
GetEnabledProviders == enabled

\* refreshAll() up to `await Promise.all`: reads the enabled set and starts
\* one task per id; each task runs fetch() to its first suspension point
RefreshAllStart(c) ==
    /\ FreeSlot(c)
    /\ LET ids == GetEnabledProviders \cap Registered
           b(i) == FetchBegin(i, store[i])
       IN  /\ call' = [call EXCEPT ![c] =
                          [kind |-> "all", status |-> "running", ids |-> GetEnabledProviders,
                           pend |-> ids,
                           phase |-> [i \in Registered |->
                                         IF i \in ids THEN b(i).phase ELSE "idle"],
                           out |-> [i \in Registered |-> None],
                           ret |-> None]]
           /\ store' = [i \in Registered |-> IF i \in ids THEN b(i).st ELSE store[i]]
    /\ UNCHANGED <<enabled, latestUsage, retryVars, breakerVars, normVars, adapterVars, viewVars>>

\* refreshProvider(providerId): null for an unknown id, else one fetch
RefreshProviderStart(c, id) ==
    /\ FreeSlot(c)
    /\ id \in AllIds
    /\ InScope({id})
    /\ IF id \notin Registered
       THEN /\ call' = [call EXCEPT ![c] =
                          [IdleCall EXCEPT !.kind = "one", !.status = "done", !.ids = {id}]]
            /\ store' = store
       ELSE LET b == FetchBegin(id, store[id])
            IN  /\ call' = [call EXCEPT ![c] =
                              [IdleCall EXCEPT !.kind = "one", !.status = "running",
                                               !.ids = {id}, !.pend = {id},
                                               !.phase[id] = b.phase]]
                /\ store' = [store EXCEPT ![id] = b.st]
    /\ UNCHANGED <<enabled, latestUsage, retryVars, breakerVars, normVars, adapterVars, viewVars>>

\* one task resumes after an awaited call settles with env; when fetch()
\* settles the task writes the cache (refreshProvider also returns)
TaskStep(c, id, env) ==
    /\ call[c].status = "running"
    /\ id \in call[c].pend
    /\ env \in FetchEnvs(id, call[c].phase[id])
    /\ LET r == FetchStep(id, call[c].phase[id], store[id], env)
       IN  /\ store' = [store EXCEPT ![id] = r.st]
           /\ IF r.out = None
              THEN /\ call' = [call EXCEPT ![c].phase[id] = r.phase]
                   /\ latestUsage' = latestUsage
              ELSE     /\ latestUsage' = TaskCache(latestUsage, id, r.out[1])
                       /\ call' = [call EXCEPT
                              ![c].phase[id] = "done",
                              ![c].out[id] = r.out,
                              ![c].pend = @ \ {id},
                              ![c].status = IF call[c].kind = "one" THEN "done" ELSE @,
                              ![c].ret = IF call[c].kind = "one"
                                         THEN TaskReturn(id, r.out[1]) ELSE @]
    /\ UNCHANGED <<enabled, retryVars, breakerVars, normVars, adapterVars, viewVars>>

\* refreshAll() resumes after `await Promise.all(promises)` and returns
RefreshAllJoin(c) ==
    /\ call[c].kind = "all"
    /\ call[c].status = "running"
    /\ JoinReady(c)
    /\ call' = [call EXCEPT ![c].status = "done"]
    /\ UNCHANGED <<enabled, latestUsage, store, retryVars, breakerVars, normVars, adapterVars, viewVars>>

\* a getLatestUsage() that hands out the cache object itself
SnapshotAlias(cache) == [kind |-> "alias", val |-> cache]

\* getLatestUsage(): { ...this.latestUsage }, a new object with the same entries
Snapshot(cache) == [kind |-> "copy", val |-> cache]

\* the entries the holder of snapshot s sees when the cache is `cache`
SnapshotEntries(s, cache) == IF s.kind = "alias" THEN cache ELSE s.val

\* getProviderUsage(providerId)
GetProviderUsage(id) == latestUsage[id]

\* a caller takes a snapshot and keeps it
GetLatestUsage ==
    /\ view = None
    /\ view' = Some(Snapshot(latestUsage))
    /\ UNCHANGED <<orchVars, retryVars, breakerVars, normVars, adapterVars>>

(***************************************************************************)
(* withRetry (src/main/utils/retry.ts)                                     *)
(***************************************************************************)
\* what one invocation of fn does: resolve, reject with response.status,
\* or reject with an error that carries no response
RetryOutcomes == {"ok", "400", "401", "403", "500", "nostatus"}

DefaultRetryOn == {"429", "500", "502", "503", "504"}

RetryOnChoices == {DefaultRetryOn, {"401", "500"}}

\* the outcome of the k-th invocation of fn
ScriptAt(k) ==
    IF k <= Len(rCfg.script) THEN rCfg.script[k] ELSE rCfg.script[Len(rCfg.script)]

\* a test that takes every failure to carry a status
HasStatusAlways(o) == TRUE

\* error.response?.status is a number other than 0
HasStatus(o) == o # "nostatus"

\* a policy that treats every failure as retryable
NonRetryableNever(o, retryOn) == FALSE

\* if (status && !retryOn.includes(status))
NonRetryable(o, retryOn) == HasStatus(o) /\ o \notin retryOn

\* giving up one attempt early
RetryExhaustedEarly(attempt, maxAttempts) == attempt + 1 >= maxAttempts

\* if (attempt === maxAttempts)
RetryExhausted(attempt, maxAttempts) == attempt = maxAttempts

\* a loop that forgets to count
NextAttemptStuck(attempt) == attempt

\* attempt++ of the for loop
NextAttempt(attempt) == attempt + 1

RECURSIVE Pow(_, _)
\* Math.pow(b, e) for a whole exponent
Pow(b, e) == IF e = 0 THEN 1 ELSE b * Pow(b, e - 1)

\* the values Math.random() returns, in thousandths
Randoms == {0, 500, 999}

\* a delay that forgets the maxDelay cap
BackoffDelayUncapped(cfg, attempt) ==
    cfg.baseDelay * Pow(cfg.backoffMultiplier, attempt - 1)

\* Math.min(baseDelay * Math.pow(backoffMultiplier, attempt - 1), maxDelay)
BackoffDelay(cfg, attempt) ==
    Min2(cfg.baseDelay * Pow(cfg.backoffMultiplier, attempt - 1), cfg.maxDelay)

\* setTimeout(resolve, delay + jitter) with jitter = Math.random() * 0.3 * delay;
\* the timer takes the whole milliseconds of its argument
SleepMs(cfg, attempt, random) ==
    LET delay == BackoffDelay(cfg, attempt)
    IN  delay + (random * 3 * delay) \div 10000

RetryError(k) == [kind |-> "error", attempt |-> k, status |-> ScriptAt(k)]
RetryValue(k) == [kind |-> "value", attempt |-> k, status |-> "ok"]

\* one pass through the loop body up to its return, throw or sleep
RetryInvoke(random) ==
    /\ rPc = "call"
    /\ rAttempt <= rCfg.maxAttempts
    /\ LET k == rInv + 1
           o == ScriptAt(k)
       IN  /\ rInv' = k
           /\ IF o = "ok" THEN
                  /\ rPc' = "returned"
                  /\ rOut' = Some(RetryValue(k))
                  /\ rLog' = rLog
              ELSE IF NonRetryable(o, rCfg.retryOn)
                      \/ RetryExhausted(rAttempt, rCfg.maxAttempts) THEN
                  /\ rPc' = "thrown"
                  /\ rOut' = Some(RetryError(k))
                  /\ rLog' = rLog
              ELSE
                  /\ rPc' = "sleep"
                  /\ rOut' = rOut
                  /\ rLog' = Append(rLog, SleepMs(rCfg, rAttempt, random))
    /\ UNCHANGED <<rCfg, rAttempt, rSleeps, orchVars, breakerVars, normVars, adapterVars, viewVars>>

\* the backoff timer fires; the loop goes round
RetrySleepDone ==
    /\ rPc = "sleep"
    /\ rPc' = "call"
    /\ rAttempt' = NextAttempt(rAttempt)
    /\ rSleeps' = rSleeps + 1
    /\ UNCHANGED <<rCfg, rInv, rOut, rLog, orchVars, breakerVars, normVars, adapterVars, viewVars>>

\* the loop condition fails: throw lastError
RetryLoopExit ==
    /\ rPc = "call"
    /\ rAttempt > rCfg.maxAttempts
    /\ rPc' = "thrown"
    /\ rOut' = IF rInv = 0 THEN Some([kind |-> "error", attempt |-> 0, status |-> "undefined"])
               ELSE Some(RetryError(rInv))
    /\ UNCHANGED <<rCfg, rAttempt, rInv, rSleeps, rLog, orchVars, breakerVars, normVars, adapterVars, viewVars>>

(***************************************************************************)
(* CircuitBreaker (src/main/utils/circuit-breaker.ts)                      *)
(***************************************************************************)
StartTime == MaxTimeout + 1     \* Date.now() at construction, past any timeout
MaxTime == StartTime + MaxTicks

\* the comparison with >= in place of >
TimeoutElapsedInclusive(t, last, timeout) == t - last >= timeout

\* Date.now() - this.lastFailureTime > this.timeout
TimeoutElapsed(t, last, timeout) == t - last > timeout

\* getState(): the state it returns (and stores)
GetStateOf(st, t, last, timeout) ==
    IF st = "OPEN" /\ TimeoutElapsed(t, last, timeout) THEN "HALF_OPEN" ELSE st

\* the comparison with > in place of >=
ThresholdExceeded(count, threshold) == count > threshold

\* if (this.failureCount >= this.failureThreshold)
ThresholdReached(count, threshold) == count >= threshold

\* an onSuccess() that closes without calling reset()
OnSuccessNoReset(st, fc, sc, cfg) ==
    IF st = "HALF_OPEN" THEN
        [state |-> IF sc + 1 >= cfg.successThreshold THEN "CLOSED" ELSE st,
         failureCount |-> fc, successCount |-> sc + 1]
    ELSE [state |-> st, failureCount |-> 0, successCount |-> sc]

\* onSuccess(): state, failureCount, successCount afterwards
OnSuccess(st, fc, sc, cfg) ==
    IF st = "HALF_OPEN" THEN
        IF sc + 1 >= cfg.successThreshold
        THEN [state |-> "CLOSED", failureCount |-> 0, successCount |-> 0]
        ELSE [state |-> st, failureCount |-> fc, successCount |-> sc + 1]
    ELSE [state |-> st, failureCount |-> 0, successCount |-> sc]

\* onFailure(): state and failureCount afterwards
OnFailure(st, fc, sc, cfg) ==
    [state |-> IF ThresholdReached(fc + 1, cfg.failureThreshold) THEN "OPEN" ELSE st,
     failureCount |-> fc + 1, successCount |-> sc]

\* an execute() without the OPEN test
RejectsNever(st) == FALSE

\* execute() rejects at once in this state
Rejects(st) == st = "OPEN"

Tick ==
    /\ now < MaxTime
    /\ now' = now + 1
    /\ bLog' = [bLog EXCEPT !.ev = "tick"]
    /\ UNCHANGED <<bCfg, bState, failureCount, successCount, lastFailureTime,
                   inflight, opCalls, orchVars, retryVars, normVars, adapterVars, viewVars>>

GetState ==
    /\ bState' = GetStateOf(bState, now, lastFailureTime, bCfg.timeout)
    /\ bLog' = [bLog EXCEPT !.ev = "getState", !.reported = bState']
    /\ UNCHANGED <<bCfg, failureCount, successCount, lastFailureTime, now,
                   inflight, opCalls, orchVars, retryVars, normVars, adapterVars, viewVars>>

\* execute() up to `await fn()`: getState(), then reject or invoke fn
ExecuteStart ==
    /\ opCalls < MaxOps
    /\ inflight < MaxInflight
    /\ LET st == GetStateOf(bState, now, lastFailureTime, bCfg.timeout)
       IN  /\ bState' = st
           /\ IF Rejects(st)
              THEN /\ bLog' = [bLog EXCEPT !.ev = "rejected", !.reported = st]
                   /\ UNCHANGED <<inflight, opCalls>>
              ELSE /\ bLog' = [bLog EXCEPT !.ev = "admitted", !.reported = st]
                   /\ inflight' = inflight + 1
                   /\ opCalls' = opCalls + 1
    /\ UNCHANGED <<bCfg, failureCount, successCount, lastFailureTime, now,
                   orchVars, retryVars, normVars, adapterVars, viewVars>>

\* fn() settles: onSuccess() or onFailure()
ExecuteFinish(ok) ==
    /\ inflight > 0
    /\ inflight' = inflight - 1
    /\ IF ok
       THEN LET r == OnSuccess(bState, failureCount, successCount, bCfg)
            IN  /\ bState' = r.state
                /\ failureCount' = r.failureCount
                /\ successCount' = r.successCount
                /\ lastFailureTime' = lastFailureTime
                /\ bLog' = [bLog EXCEPT !.ev = "success", !.consec = 0]
       ELSE LET r == OnFailure(bState, failureCount, successCount, bCfg)
            IN  /\ bState' = r.state
                /\ failureCount' = r.failureCount
                /\ successCount' = r.successCount
                /\ lastFailureTime' = now
                /\ bLog' = [bLog EXCEPT !.ev = "failure", !.consec = @ + 1]
    /\ UNCHANGED <<bCfg, now, opCalls, orchVars, retryVars, normVars, adapterVars, viewVars>>


(***************************************************************************)
(* Usage normalization: each provider's mapping from a raw payload to the  *)
(* windows of a ProviderUsage, applied to payloads of every shape          *)
(***************************************************************************)
\* used and limit as a service may report them (an absent number is 0)
UsedVals == {0, 21, 75}
LimitVals == {0, 50}
Opt(S) == {None} \cup { Some(x) : x \in S }

Pairs == [used : UsedVals, limit : LimitVals]

ClaudeInputs ==
    [sr : Opt({-20, 58, 120}), su : Opt({0, 42, 150}),
     wr : Opt({-20, 58, 120}), wu : Opt({0, 42, 150})]

CursorInputs ==
    [used : UsedVals, limit : LimitVals, tpu : Opt({0, 1, 42, 150}),
     msg : Opt({29, 60}), odUsed : {0, 5, 15}, odLimit : {0, 10}]

CopilotInputs ==
    [premium : Opt({-20, 0, 58, 120}), chat : Opt({-20, 0, 58, 120}), monthly : Opt({0, 50})]

ZaiInputs ==
    [quota : Opt([percent_used : {0, 42, 150}, used : UsedVals, limit : LimitVals]),
     mcp : Opt(Pairs)]

FactoryInputs ==
    [current : Opt([percent : {0, 42, 150}, used : UsedVals, limit : LimitVals])]

GeminiInputs ==
    [requests : Opt([usage : UsedVals, limit : LimitVals]),
     tokens : Opt([usage : UsedVals, limit : LimitVals])]

CodexInputs == [primary : Opt({0, 42, 150}), secondary : Opt({0, 42, 150})]

Labels ==
    {"Claude Sonnet 4.5", "Claude Sonnet 4.5 (Thinking)", "Gemini 3 Pro (Low)",
     "Gemini 3 Pro (High)", "Gemini 3 Flash", "Claude Pro (Low)",
     "GPT-OSS 120B", "GPT-OSS 20B"}

\* remainingFraction per label, in hundredths: two answers of the language server
RemMaps ==
    { [l \in Labels |->
          CASE l = "Claude Sonnet 4.5" -> Some(73)
            [] l = "Claude Sonnet 4.5 (Thinking)" -> Some(58)
            [] l = "Gemini 3 Pro (Low)" -> Some(27)
            [] l = "Gemini 3 Pro (High)" -> Some(90)
            [] l = "Gemini 3 Flash" -> Some(100)
            [] l = "Claude Pro (Low)" -> Some(42)
            [] l = "GPT-OSS 120B" -> Some(0)
            [] OTHER -> Some(50)],
      [l \in Labels |->
          CASE l = "Claude Sonnet 4.5" -> Some(150)
            [] l = "Claude Sonnet 4.5 (Thinking)" -> None
            [] l = "Gemini 3 Pro (Low)" -> Some(-10)
            [] l = "Gemini 3 Pro (High)" -> Some(27)
            [] l = "Gemini 3 Flash" -> None
            [] l = "Claude Pro (Low)" -> Some(10)
            [] l = "GPT-OSS 120B" -> Some(27)
            [] OTHER -> Some(73)] }

\* the sequences of at most n distinct labels
RECURSIVE LabelSeqs(_)
LabelSeqs(n) ==
    IF n = 0 THEN { << >> }
    ELSE LET shorter == LabelSeqs(n - 1)
         IN  shorter \cup
             { Append(q, l) : q \in { x \in shorter : Len(x) = n - 1 }, l \in Labels }

Distinct(q) == \A i, j \in 1..Len(q) : i # j => q[i] # q[j]

AntigravityInputs ==
    { [i \in 1..Len(q) |-> Quota(q[i], m[q[i]])] :
          q \in { x \in LabelSeqs(MaxQuotas) : Distinct(x) }, m \in RemMaps }

\* the raw payloads of provider id
NormInputs(id) ==
    CASE id = "claude" -> ClaudeInputs
      [] id = "cursor" -> CursorInputs
      [] id = "copilot" -> CopilotInputs
      [] id = "zai" -> ZaiInputs
      [] id = "factory" -> FactoryInputs
      [] id = "gemini" -> GeminiInputs
      [] id = "codex" -> CodexInputs
      [] id = "antigravity" -> AntigravityInputs

\* the record provider id makes of raw
Normalize(id, raw) ==
    CASE id = "claude" -> ClaudeParseUsageResponse(raw)
      [] id = "cursor" -> CursorParseUsageSummary(raw)
      [] id = "copilot" -> CopilotParse(raw)
      [] id = "zai" -> ZaiParse(raw)
      [] id = "factory" -> FactoryParse(raw)
      [] id = "gemini" -> GeminiParse(raw)
      [] id = "codex" -> CodexParse(raw)
      [] id = "antigravity" -> AntigravityParseUserStatus(raw)

\* the provider parses the response it received
NormalizeStep ==
    /\ norm.pc = "raw"
    /\ norm' = [norm EXCEPT !.pc = "done", !.out = Some(Normalize(norm.id, norm.raw[1]))]
    /\ UNCHANGED <<orchVars, retryVars, breakerVars, adapterVars, viewVars>>

(***************************************************************************)
(* Credential resolution: getToken() of copilot.ts and zai.ts              *)
(***************************************************************************)
Tokens == {"tokA", "tokB"}

\* a || b on optional strings
OrOpt(a, b) == IF a # None THEN a ELSE b

\* what Copilot's getToken() can read: copilot-token.json, GITHUB_TOKEN,
\* the output of `gh auth token`
CopilotCredInputs == [stored : Opt(Tokens), override : Opt(Tokens), cli : Opt(Tokens)]

\* what z.ai's getToken() can read: ZAI_API_TOKEN and the fields of the
\* first config.json that has one of them
ZaiCredInputs ==
    [override : Opt(Tokens), api_token : Opt(Tokens),
     apiToken : Opt(Tokens), token : Opt(Tokens)]

CredProviders == {"copilot", "zai"}

CredInputs(id) == IF id = "copilot" THEN CopilotCredInputs ELSE ZaiCredInputs

\* the token returned and the token file afterwards
CopilotGetToken(in) ==
    IF in.stored # None THEN [token |-> in.stored, stored |-> in.stored]
    ELSE IF in.override # None THEN [token |-> in.override, stored |-> in.stored]
    ELSE IF in.cli # None THEN [token |-> in.cli, stored |-> in.cli]   \* saveToken
    ELSE [token |-> None, stored |-> in.stored]

\* z.ai keeps no token file of its own
ZaiGetToken(in) ==
    [token |-> OrOpt(in.override, OrOpt(in.api_token, OrOpt(in.apiToken, in.token))),
     stored |-> None]

GetToken(id, in) == IF id = "copilot" THEN CopilotGetToken(in) ELSE ZaiGetToken(in)

\* the provider resolves its credential
GetTokenStep ==
    /\ cred.pc = "start"
    /\ LET r == GetToken(cred.id, cred.in[1])
       IN  cred' = [cred EXCEPT !.pc = "done", !.token = r.token, !.stored = r.stored]
    /\ UNCHANGED <<orchVars, retryVars, breakerVars, normVars, fx, lg, viewVars>>

(***************************************************************************)
(* One provider.fetch() call on its own (Provider.fetch, part_008)         *)
(***************************************************************************)
\* the awaited request(s) of this step were answered 401 or 403
Unauthorized(env) == env.net \in {"401", "403"} \/ env.net2 \in {"401", "403"}

\* the step of fetch() that env answers makes a network or process call
\* (reading files and environment variables is not one)
OutboundCall(id, phase, env) ==
    /\ ~(id = "cursor" /\ phase = "nocred")
    /\ ~(id \in {"zai", "factory"} /\ ~env.cred)
    /\ ~(id = "copilot" /\ phase = "resolve" /\ env.src = "env")

\* fetch() settled without usage data: it raised or returned an error record
FetchFailed(o) == o.kind = "raise" \/ o.rec[1].error # None

\* CircuitBreaker's default failureThreshold
DefaultFailureThreshold == 5

\* fetch() runs to its first suspension point
FetchStart ==
    /\ fx.pc = "start"
    /\ LET b == FetchBegin(fx.id, fx.st)
       IN  fx' = [fx EXCEPT !.pc = "run", !.st = b.st, !.phase = b.phase]
    /\ UNCHANGED <<orchVars, retryVars, breakerVars, normVars, cred, lg, viewVars>>

\* fetch() resumes after an awaited call settles with env
FetchResume(env) ==
    /\ fx.pc = "run"
    /\ env \in FetchEnvs(fx.id, fx.phase)
    /\ LET r == FetchStep(fx.id, fx.phase, fx.st, env)
       IN  fx' = [fx EXCEPT !.pc = IF r.out = None THEN "run" ELSE "done",
                            !.st = r.st,
                            !.phase = r.phase,
                            !.last = Some(env),
                            !.unauth = @ \/ Unauthorized(env),
                            !.outbound = @ \/ OutboundCall(fx.id, fx.phase, env),
                            !.fails = IF r.out = None THEN @
                                      ELSE IF FetchFailed(r.out[1])
                                              /\ (fx.outbound \/ OutboundCall(fx.id, fx.phase, env))
                                      THEN @ + 1
                                      ELSE 0,
                            !.out = r.out]
    /\ UNCHANGED <<orchVars, retryVars, breakerVars, normVars, cred, lg, viewVars>>

\* the next refresh cycle calls fetch() of the same provider again
FetchAgain ==
    /\ fx.pc = "done"
    /\ fx.cycle < MaxCycles
    /\ fx' = [fx EXCEPT !.pc = "start", !.cycle = @ + 1, !.st0 = fx.st, !.phase = "idle",
                        !.last = None, !.unauth = FALSE, !.outbound = FALSE, !.out = None]
    /\ UNCHANGED <<orchVars, retryVars, breakerVars, normVars, cred, lg, viewVars>>

\* what the calls awaited by isAvailable() can answer
AvailEnvs(id) ==
    IF id = "copilot" THEN { [NoEnv EXCEPT !.src = x] : x \in {"env", "gh", "none"} }
    ELSE IF id \in {"zai", "factory"} THEN { [NoEnv EXCEPT !.cred = b] : b \in BOOLEAN }
    ELSE IF id = "antigravity" THEN { [NoEnv EXCEPT !.src = x] : x \in {"detect", "none"} }
    ELSE { [NoEnv EXCEPT !.ok = b] : b \in BOOLEAN }

\* isAvailable(): the stored session afterwards and the answer
IsAvailable(id, st, env) ==
    CASE id = "claude" ->
             \* detectCLIVersion, then getCookieHeader
             IF env.ok THEN [st |-> st, avail |-> TRUE]
             ELSE [st |-> ClaudeBegin(st).st, avail |-> ClaudeBegin(st).phase = "net"]
      [] id = "cursor" ->
             [st |-> CursorBegin(st).st, avail |-> CursorBegin(st).phase = "net"]
      [] id = "copilot" ->
             \* getToken
             IF CopilotBegin(st).phase = "net" THEN [st |-> st, avail |-> TRUE]
             ELSE LET r == CopilotStep("resolve", st, env)
                  IN  [st |-> r.st, avail |-> r.phase = "net"]
      [] id \in {"zai", "factory"} -> [st |-> st, avail |-> env.cred]
      [] id = "antigravity" -> [st |-> st, avail |-> env.src # "detect"]
      [] OTHER -> [st |-> st, avail |-> env.ok]

\* provider.isAvailable() runs to completion
IsAvailableCall(env) ==
    /\ fx.pc = "start"
    /\ env \in AvailEnvs(fx.id)
    /\ LET r == IsAvailable(fx.id, fx.st, env)
       IN  fx' = [fx EXCEPT !.pc = "probed", !.st = r.st, !.last = Some(env),
                            !.phase = IF r.avail THEN "available" ELSE "unavailable"]
    /\ UNCHANGED <<orchVars, retryVars, breakerVars, normVars, cred, lg, viewVars>>

(***************************************************************************)
(* Login flows: openLoginWindow() of claude.ts, part_004 and copilot.ts    *)
(***************************************************************************)
Flows == 1..MaxFlows

\* providers whose flow watches the cookies of a login window
CookieLogin == {"claude", "cursor"}

LoginProviders == CookieLogin \cup {"copilot"}

\* one openLoginWindow() call: its window is the one with the same number
NewFlow == [pc |-> "idle", timer |-> FALSE, check |-> "none", attempts |-> 0,
            result |-> None]

\* BrowserWindow.isDestroyed()
IsDestroyed(L, w) == L.win[w] = "destroyed"

\* a later openLoginWindow() call has created its window and the window of
\* flow f is gone
Superseded(L, f) ==
    /\ IsDestroyed(L, f)
    /\ \E g \in Flows : g > f /\ L.win[g] # "none"

\* resolve(b): only the first call settles the promise
Resolve(L, f, b) ==
    [L EXCEPT !.flow[f].result = IF @ = None THEN Some(b) ELSE @]

\* the 'closed' handler of window w: the cookie flows clear their interval,
\* every flow sets this.loginWindow = null
OnClosed(L, w) ==
    [L EXCEPT !.win[w] = "destroyed",
              !.loginWindow = 0,
              !.flow[w].timer = IF L.id \in CookieLogin THEN FALSE ELSE @]

\* this.loginWindow.close() called by flow f: 'closed' is emitted either
\* before close() returns or later from the event loop
CloseLoginWindow(L, f, sync) ==
    LET w == L.loginWindow
        M == IF w # f /\ Superseded(L, f) THEN [L EXCEPT !.late = @ \cup {f}] ELSE L
    IN  IF w = 0 \/ L.win[w] # "open" THEN L
        ELSE IF sync THEN OnClosed(M, w)
        ELSE [M EXCEPT !.win[w] = "closing"]

\* if (this.loginWindow && !this.loginWindow.isDestroyed()) this.loginWindow.close();
\* this.loginWindow = new BrowserWindow(...); the timer is started
CreateLoginWindow(L, f, sync) ==
    [CloseLoginWindow(L, f, sync) EXCEPT !.win[f] = "open",
                                         !.loginWindow = f,
                                         !.flow[f].pc = "open",
                                         !.flow[f].timer = TRUE]

\* saveSessionCookies / saveToken by flow f
SaveCredential(L, f) ==
    [L EXCEPT !.saved = @ \cup {f},
              !.late = IF Superseded(L, f) THEN @ \cup {f} ELSE @]

LoginUnchanged == UNCHANGED <<orchVars, retryVars, breakerVars, normVars, cred, fx, viewVars>>

\* openLoginWindow(): Claude and Cursor create the window at once, Copilot
\* first awaits the device code
OpenLoginWindow(f, sync) ==
    /\ lg.flow[f].pc = "idle"
    /\ \A g \in Flows : g < f => lg.flow[g].pc # "idle"
    /\ lg' = IF lg.id \in CookieLogin THEN CreateLoginWindow(lg, f, sync)
             ELSE [lg EXCEPT !.flow[f].pc = "devcode"]
    /\ LoginUnchanged

\* Copilot: the device code request settles
DeviceCodeResponse(f, ok, sync) ==
    /\ lg.flow[f].pc = "devcode"
    /\ lg' = IF ok THEN CreateLoginWindow(lg, f, sync)
             ELSE Resolve([lg EXCEPT !.flow[f].pc = "failed"], f, FALSE)
    /\ LoginUnchanged

\* a window whose close() was called is closed
WindowClosed(w) ==
    /\ lg.win[w] = "closing"
    /\ lg' = OnClosed(lg, w)
    /\ LoginUnchanged

\* the user closes a login window
UserClosesWindow(w) ==
    /\ lg.win[w] = "open"
    /\ lg' = OnClosed(lg, w)
    /\ LoginUnchanged

\* Claude, Cursor: the setInterval callback of flow f runs
IntervalTick(f) ==
    /\ lg.id \in CookieLogin
    /\ lg.flow[f].timer
    /\ lg.flow[f].check = "none"
    /\ lg' = IF lg.loginWindow # 0 /\ IsDestroyed(lg, lg.loginWindow)
             THEN Resolve([lg EXCEPT !.flow[f].timer = FALSE], f, FALSE)
             ELSE [lg EXCEPT !.flow[f].check = "timer"]
    /\ LoginUnchanged

\* Claude, Cursor: did-navigate in the window of flow f starts checkForSession
DidNavigate(f) ==
    /\ lg.id \in CookieLogin
    /\ lg.win[f] = "open"
    /\ lg.flow[f].check = "none"
    /\ lg' = [lg EXCEPT !.flow[f].check = "nav"]
    /\ LoginUnchanged

\* Claude, Cursor: cookies.get settles in checkForSession of flow f
CookiesGot(f, found, sync) ==
    /\ lg.id \in CookieLogin
    /\ lg.flow[f].check # "none"
    /\ lg' = IF ~found THEN [lg EXCEPT !.flow[f].check = "none"]
             ELSE LET A == SaveCredential(lg, f)
                      B == CloseLoginWindow(A, f, sync)
                      C == Resolve(B, f, TRUE)
                  IN  [C EXCEPT !.flow[f].check = "none",
                                !.flow[f].timer =
                                    IF lg.flow[f].check = "timer" THEN FALSE ELSE @]
    /\ LoginUnchanged

\* Copilot: the setTimeout callback poll() of flow f runs
PollTick(f, sync) ==
    /\ lg.id = "copilot"
    /\ lg.flow[f].timer
    /\ LET A == [lg EXCEPT !.flow[f].timer = FALSE]
       IN  lg' = IF lg.loginWindow # 0 /\ IsDestroyed(lg, lg.loginWindow)
                 THEN Resolve(A, f, FALSE)
                 ELSE IF lg.flow[f].attempts + 1 > lg.maxAttempts
                 THEN Resolve(CloseLoginWindow(
                          [A EXCEPT !.flow[f].attempts = @ + 1], f, sync), f, FALSE)
                 ELSE [A EXCEPT !.flow[f].attempts = @ + 1, !.flow[f].check = "timer"]
    /\ LoginUnchanged

TokenAnswers == {"authorization_pending", "slow_down", "error", "access_token", "neterr"}

\* Copilot: the access_token request of flow f settles (the provider object)
PollAnswered(f, r, sync) ==
    /\ lg.id = "copilot"
    /\ lg.flow[f].check = "timer"
    /\ r \in TokenAnswers
    /\ LET A == [lg EXCEPT !.flow[f].check = "none"]
       IN  lg' = IF r = "error"
                 THEN Resolve(CloseLoginWindow(A, f, sync), f, FALSE)
                 ELSE IF r = "access_token"
                 THEN Resolve(CloseLoginWindow(SaveCredential(A, f), f, sync), f, TRUE)
                 ELSE [A EXCEPT !.flow[f].timer = TRUE]

\* Copilot: the access_token request of flow f settles
TokenResponse(f, r, sync) ==
    /\ PollAnswered(f, r, sync)
    /\ LoginUnchanged

\* saveToken(data.access_token): the token file afterwards
SaveToken(st) == "login"

\* Copilot: the access_token request of flow f settles while fetch() of the
\* same provider object may be running: both use the one token file
TokenResponseBesideFetch(f, r, sync) ==
    /\ PollAnswered(f, r, sync)
    /\ fx' = IF r = "access_token" THEN [fx EXCEPT !.st = SaveToken(fx.st)] ELSE fx
    /\ UNCHANGED <<orchVars, retryVars, breakerVars, normVars, cred, viewVars>>

(***************************************************************************)
(* Specifications                                                          *)
(***************************************************************************)
OrchIdle ==
    /\ enabled = {"antigravity"}
    /\ latestUsage = [i \in AllIds |-> None]
    /\ call = [c \in Calls |-> IdleCall]
    /\ store = [i \in Registered |-> "none"]

RetryIdle ==
    /\ rCfg = [maxAttempts |-> 3, baseDelay |-> 1000, maxDelay |-> 30000,
               backoffMultiplier |-> 2, retryOn |-> DefaultRetryOn, script |-> <<"ok">>]
    /\ rLog = <<>>
    /\ rPc = "idle"
    /\ rAttempt = 1
    /\ rInv = 0
    /\ rSleeps = 0
    /\ rOut = None

BreakerIdle ==
    /\ bCfg = [failureThreshold |-> 5, successThreshold |-> 2, timeout |-> MaxTimeout]
    /\ bState = "CLOSED"
    /\ failureCount = 0
    /\ successCount = 0
    /\ lastFailureTime = 0
    /\ now = StartTime
    /\ inflight = 0
    /\ opCalls = 0
    /\ bLog = [ev |-> "new", consec |-> 0, reported |-> "CLOSED"]

\* no payload is being normalized
NormIdle == norm = [pc |-> "idle", id |-> "none", raw |-> None, out |-> None]

CredIdle ==
    cred = [pc |-> "idle", id |-> "none", in |-> None, token |-> None, stored |-> None]

FetchIdle ==
    fx = [pc |-> "idle", id |-> "none", st0 |-> "none", st |-> "none",
          phase |-> "idle", last |-> None, unauth |-> FALSE, out |-> None,
          cycle |-> 1, outbound |-> FALSE, fails |-> 0]

LoginIdle(id, n) ==
    lg = [id |-> id, loginWindow |-> 0, win |-> [w \in Flows |-> "none"],
          flow |-> [f \in Flows |-> NewFlow], maxAttempts |-> n,
          saved |-> {}, late |-> {}]

AdapterIdle == CredIdle /\ FetchIdle /\ LoginIdle("none", 0) /\ view = None

\* the ProviderManager after construction; the session files are whatever
\* an earlier run left in userData
Init ==
    /\ enabled \in EnabledChoices
    /\ latestUsage = [i \in AllIds |-> None]
    /\ call = [c \in Calls |-> IdleCall]
    /\ store \in { f \in [Registered -> {"none", "valid", "expired", "stale"}] :
                      \A i \in Registered :
                          /\ f[i] \in StoreVals(i)
                          /\ i \notin enabled => f[i] = "none" }
    /\ RetryIdle
    /\ BreakerIdle
    /\ NormIdle
    /\ AdapterIdle

Next ==
    \/ \E S \in EnabledChoices : SetEnabledProviders(S)
    \/ \E c \in Calls : RefreshAllStart(c)
    \/ \E c \in Calls, id \in AllIds : RefreshProviderStart(c, id)
    \/ \E c \in Calls, id \in Registered :
          \E env \in FetchEnvs(id, call[c].phase[id]) : TaskStep(c, id, env)
    \/ \E c \in Calls : RefreshAllJoin(c)

Spec == Init /\ [][Next]_vars

\* withRetry(fn, options) has just been called
InitRetry ==
    /\ OrchIdle
    /\ BreakerIdle
    /\ NormIdle
    /\ AdapterIdle
    /\ rCfg \in [maxAttempts : 0..MaxAttemptsBound,
                 baseDelay : {0, 1000},
                 maxDelay : {1500, 30000},
                 backoffMultiplier : {1, 2},
                 retryOn : RetryOnChoices,
                 script : [1..(MaxAttemptsBound + 1) -> RetryOutcomes]]
    /\ rPc = "call"
    /\ rAttempt = 1
    /\ rInv = 0
    /\ rSleeps = 0
    /\ rOut = None
    /\ rLog = <<>>

NextRetry == (\E random \in Randoms : RetryInvoke(random)) \/ RetrySleepDone \/ RetryLoopExit

SpecRetry == InitRetry /\ [][NextRetry]_vars

\* new CircuitBreaker(name, options)
InitBreaker ==
    /\ OrchIdle
    /\ RetryIdle
    /\ NormIdle
    /\ AdapterIdle
    /\ bCfg \in [failureThreshold : 1..MaxThreshold,
                 successThreshold : 1..MaxThreshold,
                 timeout : 1..MaxTimeout]
    /\ bState = "CLOSED"
    /\ failureCount = 0
    /\ successCount = 0
    /\ lastFailureTime = 0
    /\ now = StartTime
    /\ inflight = 0
    /\ opCalls = 0
    /\ bLog = [ev |-> "new", consec |-> 0, reported |-> "CLOSED"]

NextBreaker ==
    \/ Tick
    \/ GetState
    \/ ExecuteStart
    \/ \E ok \in BOOLEAN : ExecuteFinish(ok)

SpecBreaker == InitBreaker /\ [][NextBreaker]_vars

\* a response has arrived and is about to be parsed
InitNorm ==
    /\ OrchIdle
    /\ RetryIdle
    /\ BreakerIdle
    /\ AdapterIdle
    /\ \E id \in Registered : \E raw \in NormInputs(id) :
          norm = [pc |-> "raw", id |-> id, raw |-> Some(raw), out |-> None]

NextNorm == NormalizeStep

SpecNorm == InitNorm /\ [][NextNorm]_vars

\* the record an earlier cycle left in the cache for provider i
PriorRecord(i) == Usage(i, Some(42), None, None, None)

\* the ProviderManager after an earlier refreshAll() of the enabled set
InitOne ==
    /\ enabled \in EnabledChoices
    /\ latestUsage = [i \in AllIds |->
                          IF i \in enabled \cap Registered
                          THEN Some(PriorRecord(i)) ELSE None]
    /\ call = [c \in Calls |-> IdleCall]
    /\ store \in { f \in [Registered -> {"none", "valid", "expired", "stale"}] :
                      \A i \in Registered :
                          /\ f[i] \in StoreVals(i)
                          /\ i \notin enabled => f[i] = "none" }
    /\ RetryIdle
    /\ BreakerIdle
    /\ NormIdle
    /\ AdapterIdle

NextOne ==
    \/ \E c \in Calls, id \in AllIds : RefreshProviderStart(c, id)
    \/ \E c \in Calls, id \in Registered :
           \E env \in FetchEnvs(id, call[c].phase[id]) : TaskStep(c, id, env)

SpecOne == InitOne /\ [][NextOne]_vars

\* the invocations of a behaviour in which refreshes overlap
PairCalls == 1..MaxPairCalls

\* a new ProviderManager whose callers refresh while a refresh is running
InitPair ==
    /\ enabled \in { S \in EnabledChoices : Cardinality(S) = 1 }
    /\ latestUsage = [i \in AllIds |-> None]
    /\ call = [c \in PairCalls |-> IdleCall]
    /\ store \in { f \in [Registered -> {"none", "valid", "expired", "stale"}] :
                      \A i \in Registered :
                          /\ f[i] \in StoreVals(i)
                          /\ i \notin enabled => f[i] = "none" }
    /\ RetryIdle
    /\ BreakerIdle
    /\ NormIdle
    /\ AdapterIdle

\* the callers of these behaviours stay with the provider enabled at first
NextPair ==
    \/ \E S \in SUBSET Seen : SetEnabledProviders(S)
    \/ \E c \in PairCalls : RefreshAllStart(c)
    \/ \E c \in PairCalls, id \in Seen : RefreshProviderStart(c, id)
    \/ \E c \in PairCalls, id \in Registered :
          \E env \in FetchEnvs(id, call[c].phase[id]) : TaskStep(c, id, env)
    \/ \E c \in PairCalls : RefreshAllJoin(c)

SpecPair == InitPair /\ [][NextPair]_vars

\* no refresh is under way
NoCallRunning == \A c \in DOMAIN call : call[c].status # "running"

\* refresh cycles one after the other, the enabled set edited at any time
NextCycles ==
    \/ \E S \in SUBSET Seen : SetEnabledProviders(S)
    \/ \E c \in PairCalls : NoCallRunning /\ RefreshAllStart(c)
    \/ \E c \in PairCalls, id \in Registered :
          \E env \in FetchEnvs(id, call[c].phase[id]) : TaskStep(c, id, env)
    \/ \E c \in PairCalls : RefreshAllJoin(c)

InitCycles ==
    /\ enabled \in EnabledChoices
    /\ latestUsage = [i \in AllIds |-> None]
    /\ call = [c \in PairCalls |-> IdleCall]
    /\ store \in { f \in [Registered -> {"none", "valid", "expired", "stale"}] :
                      \A i \in Registered :
                          /\ f[i] \in StoreVals(i)
                          /\ i \notin enabled => f[i] = "none" }
    /\ RetryIdle
    /\ BreakerIdle
    /\ NormIdle
    /\ AdapterIdle

SpecCycles == InitCycles /\ [][NextCycles]_vars

\* refreshes of a new ProviderManager with a caller that takes a snapshot
NextSnap ==
    \/ \E c \in Calls : RefreshAllStart(c)
    \/ \E c \in Calls, id \in AllIds : RefreshProviderStart(c, id)
    \/ \E c \in Calls, id \in Registered :
          \E env \in FetchEnvs(id, call[c].phase[id]) : TaskStep(c, id, env)
    \/ \E c \in Calls : RefreshAllJoin(c)
    \/ GetLatestUsage

SpecSnap == Init /\ [][NextSnap]_vars

InitCred ==
    /\ OrchIdle
    /\ RetryIdle
    /\ BreakerIdle
    /\ NormIdle
    /\ FetchIdle
    /\ LoginIdle("none", 0)
    /\ view = None
    /\ \E id \in CredProviders : \E in \in CredInputs(id) :
          cred = [pc |-> "start", id |-> id, in |-> Some(in),
                  token |-> None, stored |-> None]

NextCred == GetTokenStep

SpecCred == InitCred /\ [][NextCred]_vars

\* the session file is whatever an earlier run left in userData
InitFetch ==
    /\ OrchIdle
    /\ RetryIdle
    /\ BreakerIdle
    /\ NormIdle
    /\ CredIdle
    /\ LoginIdle("none", 0)
    /\ view = None
    /\ \E id \in Registered : \E st \in StoreVals(id) :
          fx = [pc |-> "start", id |-> id, st0 |-> st, st |-> st,
                phase |-> "idle", last |-> None, unauth |-> FALSE, out |-> None,
                cycle |-> 1, outbound |-> FALSE, fails |-> 0]

NextFetch ==
    \/ FetchStart
    \/ \E env \in AvailEnvs(fx.id) : IsAvailableCall(env)
    \/ FetchAgain
    \/ \E env \in FetchEnvs(fx.id, fx.phase) : FetchResume(env)

SpecFetch == InitFetch /\ [][NextFetch]_vars

\* a provider after construction: loginWindow is null
InitLogin ==
    /\ OrchIdle
    /\ RetryIdle
    /\ BreakerIdle
    /\ NormIdle
    /\ CredIdle
    /\ FetchIdle
    /\ view = None
    /\ \E id \in LoginProviders :
          \E n \in (IF id = "copilot" THEN 1..MaxPollAttempts ELSE {0}) :
              LoginIdle(id, n)

NextLogin ==
    \/ \E f \in Flows, sync \in BOOLEAN : OpenLoginWindow(f, sync)
    \/ \E f \in Flows, ok \in BOOLEAN, sync \in BOOLEAN : DeviceCodeResponse(f, ok, sync)
    \/ \E w \in Flows : WindowClosed(w)
    \/ \E w \in Flows : UserClosesWindow(w)
    \/ \E f \in Flows : IntervalTick(f)
    \/ \E f \in Flows : DidNavigate(f)
    \/ \E f \in Flows, found \in BOOLEAN, sync \in BOOLEAN : CookiesGot(f, found, sync)
    \/ \E f \in Flows, sync \in BOOLEAN : PollTick(f, sync)
    \/ \E f \in Flows, r \in TokenAnswers, sync \in BOOLEAN : TokenResponse(f, r, sync)

SpecLogin == InitLogin /\ [][NextLogin]_vars

\* a CopilotProvider after construction, with whatever token file an earlier
\* run left; its fetch() and its openLoginWindow() are both called
InitRace ==
    /\ OrchIdle
    /\ RetryIdle
    /\ BreakerIdle
    /\ NormIdle
    /\ CredIdle
    /\ view = None
    /\ \E n \in 1..MaxPollAttempts : LoginIdle("copilot", n)
    /\ \E st \in StoreVals("copilot") :
          fx = [pc |-> "start", id |-> "copilot", st0 |-> st, st |-> st,
                phase |-> "idle", last |-> None, unauth |-> FALSE, out |-> None,
                cycle |-> 1, outbound |-> FALSE, fails |-> 0]

NextRace ==
    \/ FetchStart
    \/ \E env \in FetchEnvs(fx.id, fx.phase) : FetchResume(env)
    \/ \E f \in Flows, sync \in BOOLEAN : OpenLoginWindow(f, sync)
    \/ \E f \in Flows, ok \in BOOLEAN, sync \in BOOLEAN : DeviceCodeResponse(f, ok, sync)
    \/ \E w \in Flows : WindowClosed(w)
    \/ \E w \in Flows : UserClosesWindow(w)
    \/ \E f \in Flows, sync \in BOOLEAN : PollTick(f, sync)
    \/ \E f \in Flows, r \in TokenAnswers, sync \in BOOLEAN :
          TokenResponseBesideFetch(f, r, sync)

SpecRace == InitRace /\ [][NextRace]_vars

\* timers fire, 'closed' is emitted for a window that is closing and every
\* awaited request settles; what the user does is left open
SpecLoginFair ==
    /\ SpecLogin
    /\ \A f \in Flows :
          /\ WF_vars(\E ok \in BOOLEAN, sync \in BOOLEAN : DeviceCodeResponse(f, ok, sync))
          /\ WF_vars(WindowClosed(f))
          /\ WF_vars(IntervalTick(f))
          /\ WF_vars(\E found \in BOOLEAN, sync \in BOOLEAN : CookiesGot(f, found, sync))
          /\ WF_vars(\E sync \in BOOLEAN : PollTick(f, sync))
          /\ WF_vars(\E r \in TokenAnswers, sync \in BOOLEAN : TokenResponse(f, r, sync))

\* the backoff timer always fires and the awaited fn() always settles
SpecRetryFair == SpecRetry /\ WF_vars(NextRetry)

\* the event loop resumes every continuation whose promise has settled
SpecFair ==
    /\ Spec
    /\ \A c \in Calls, id \in Registered :
          WF_vars(\E env \in FetchEnvs(id, call[c].phase[id]) : TaskStep(c, id, env))
    /\ \A c \in Calls : WF_vars(RefreshAllJoin(c))

(***************************************************************************)
(* Properties                                                              *)
(***************************************************************************)
AllDone(c) == call[c].kind = "all" /\ call[c].status = "done"

Fetched(c, i) == call[c].out[i] # None

\* C1 (as stated): no provider's fetch() ever raises; every fetch that has
\* completed did so by returning a usage record.
FetchNeverRaises ==
    \A c \in Calls, i \in Registered :
        Fetched(c, i) => call[c].out[i][1].kind = "return"

\* C2 (as stated): once a refreshAll() has completed, the cache has an entry
\* for every id of the enabled set that call read.
EveryEnabledIdCached ==
    \A c \in Calls : AllDone(c) => \A i \in call[c].ids : latestUsage[i] # None

\* C2 (amended): once a refreshAll() has completed, the cache has an entry
\* for every id of the enabled set it read that a provider is registered
\* under, whether that provider's fetch() returned or raised.
EveryRegisteredEnabledIdCached ==
    \A c \in Calls :
        AllDone(c) => \A i \in call[c].ids \cap Registered : latestUsage[i] # None

\* a completed cycle over two registered ids, one of whose fetches raised
RaisedFetchCached ==
    \E c \in Calls :
        /\ AllDone(c)
        /\ Cardinality(call[c].ids \cap Registered) = 2
        /\ \E i \in call[c].ids \cap Registered :
              /\ Fetched(c, i)
              /\ call[c].out[i][1].kind = "raise"
              /\ latestUsage[i] # None
              /\ latestUsage[i][1].error = call[c].out[i][1].msg

\* a completed cycle whose enabled set held an id no provider is registered under
UnregisteredEnabledDone ==
    \E c \in Calls : AllDone(c) /\ call[c].ids \cap Unregistered # {}

\* no other invocation has fetched provider i
SoleFetcher(c, i) == \A d \in Calls \ {c} : ~Fetched(d, i)

\* after a cycle, every provider's entry is what its own fetch ended with:
\* the returned record, or the raised message as error
CycleKeepsRecords ==
    \A c \in Calls :
        AllDone(c) =>
            \A a \in call[c].ids \cap Registered :
                SoleFetcher(c, a) =>
                    /\ latestUsage[a] # None
                    /\ call[c].out[a][1].kind = "return" =>
                           latestUsage[a] = call[c].out[a][1].rec
                    /\ call[c].out[a][1].kind = "raise" =>
                           /\ latestUsage[a][1].error = call[c].out[a][1].msg
                           /\ latestUsage[a][1].primary = None

\* the entry of a provider changes only in the step in which a fetch of
\* that very provider completes
OnlyOwnTaskWrites ==
    \A a \in AllIds :
        latestUsage'[a] # latestUsage[a] =>
            \E c \in Calls : a \in call[c].pend /\ a \notin call'[c].pend

\* C3: in a refreshAll() cycle the outcome of one provider's fetch never
\* changes what is written for another: each entry changes only when its own
\* provider's fetch completes, and after the cycle it is exactly what that
\* fetch ended with.
CycleIsolation == []CycleKeepsRecords /\ [][OnlyOwnTaskWrites]_vars

\* a completed cycle in which A returned usedPercent 42 with no error and B failed
HealthyBesideFailed ==
    \E c \in Calls : \E a, b \in call[c].ids \cap Registered :
        /\ AllDone(c)
        /\ a # b
        /\ call[c].out[a][1].kind = "return"
        /\ latestUsage[a][1].primary = Some(42)
        /\ latestUsage[a][1].error = None
        /\ call[c].out[b][1].kind = "raise"
        /\ latestUsage[b][1].error # None

\* a completed refreshAll() has no task left and every task wrote its entry
BarrierSafe ==
    \A c \in Calls :
        AllDone(c) =>
            /\ call[c].pend = {}
            /\ \A i \in call[c].ids \cap Registered : Fetched(c, i) /\ latestUsage[i] # None

\* C4: refreshAll() is a barrier: it completes only after every task it
\* started has completed and written its entry, and when every started
\* fetch completes, refreshAll() completes.
RefreshAllBarrier ==
    /\ []BarrierSafe
    /\ \A c \in Calls :
          (call[c].kind = "all" /\ call[c].status = "running") ~> AllDone(c)

\* a refreshAll() over two registered providers has completed
TwoTaskCycleDone ==
    \E c \in Calls : AllDone(c) /\ Cardinality(call[c].ids \cap Registered) = 2

RetryTerminal == rPc \in {"returned", "thrown"}

\* the k-th outcome is a failure that withRetry retries
RetryableAt(k) == ScriptAt(k) \in rCfg.retryOn \cup {"nostatus"}

\* attempts 1..k-1 fail with retryable failures and attempt k succeeds
SucceedsAt(k) ==
    /\ k \in 1..rCfg.maxAttempts
    /\ \A j \in 1..(k - 1) : RetryableAt(j)
    /\ ScriptAt(k) = "ok"

KInvocationsThenResult ==
    \A k \in 1..MaxAttemptsBound :
        SucceedsAt(k) =>
            /\ rInv <= k
            /\ RetryTerminal =>
                  /\ rPc = "returned"
                  /\ rInv = k
                  /\ rOut = Some([kind |-> "value", attempt |-> k, status |-> "ok"])

\* C5: if the operation fails with retryable failures on attempts 1..k-1
\* and succeeds on attempt k <= maxAttempts, withRetry invokes it exactly k
\* times and returns the result of attempt k.
RetrySucceedsOnAttemptK ==
    /\ []KInvocationsThenResult
    /\ \A k \in 1..MaxAttemptsBound : SucceedsAt(k) ~> (rPc = "returned" /\ rInv = k)

\* withRetry returned the third attempt's result after two retryable failures
ReturnedOnThirdAttempt ==
    /\ rPc = "returned"
    /\ SucceedsAt(3)
    /\ rInv = 3
    /\ rSleeps = 2

\* C6: as soon as an invocation fails with a status code that is not in
\* retryOn, withRetry has thrown that very failure: no sleep follows, no
\* further attempt is counted and the operation is not invoked again; 401
\* and 403 are such failures under the default retryOn.
NonRetryableRethrownAtOnce ==
    (rInv >= 1 /\ ScriptAt(rInv) \notin (rCfg.retryOn \cup {"ok", "nostatus"})) =>
        /\ rPc = "thrown"
        /\ rOut = Some([kind |-> "error", attempt |-> rInv, status |-> ScriptAt(rInv)])
        /\ rSleeps = rInv - 1
        /\ rAttempt = rInv

\* under the default policy a 401 on the second attempt was rethrown at once
Thrown401OnSecondAttempt ==
    /\ rCfg.retryOn = DefaultRetryOn
    /\ rCfg.maxAttempts = 3
    /\ rInv = 2
    /\ ScriptAt(2) = "401"
    /\ rPc = "thrown"
    /\ rSleeps = 1

\* every attempt up to maxAttempts fails with a retryable failure
AllAttemptsRetryable == \A j \in 1..rCfg.maxAttempts : RetryableAt(j)

AtMostMaxAttempts ==
    rCfg.maxAttempts >= 1 =>
        /\ rInv <= rCfg.maxAttempts
        /\ (AllAttemptsRetryable /\ RetryTerminal) =>
              /\ rPc = "thrown"
              /\ rInv = rCfg.maxAttempts
              /\ rOut = Some([kind |-> "error", attempt |-> rCfg.maxAttempts,
                              status |-> ScriptAt(rCfg.maxAttempts)])

\* C7: for maxAttempts >= 1 withRetry never invokes the operation more than
\* maxAttempts times, whatever the outcomes; when every attempt fails with a
\* retryable failure it invokes it exactly maxAttempts times and throws the
\* failure of the last attempt.
RetryBoundedByMaxAttempts ==
    /\ []AtMostMaxAttempts
    /\ (rCfg.maxAttempts >= 1 /\ AllAttemptsRetryable)
          ~> (rPc = "thrown" /\ rInv = rCfg.maxAttempts)

\* three retryable failures with maxAttempts = 3: thrown after the third
ExhaustedAfterThreeAttempts ==
    /\ rCfg.maxAttempts = 3
    /\ AllAttemptsRetryable
    /\ rPc = "thrown"
    /\ rInv = 3
    /\ rSleeps = 2

\* while CLOSED, failureCount is the number of failures since the last
\* success and stays below the threshold
ClosedCountsConsecutive ==
    bState = "CLOSED" =>
        /\ failureCount = bLog.consec
        /\ failureCount < bCfg.failureThreshold

\* a step leaves CLOSED for OPEN exactly when it records the failure that
\* makes failureThreshold of them in a row
OpensAtThreshold ==
    bState = "CLOSED" =>
        ((bState' = "OPEN") <=>
            (inflight' = inflight - 1 /\ bLog'.ev = "failure"
                /\ bLog'.consec = bCfg.failureThreshold))

\* a success recorded while CLOSED zeroes failureCount and stays CLOSED
SuccessResetsWhileClosed ==
    (bState = "CLOSED" /\ inflight' = inflight - 1 /\ bLog'.ev = "success") =>
        (failureCount' = 0 /\ bState' = "CLOSED")

\* C8: starting CLOSED, the breaker becomes OPEN exactly when
\* failureThreshold failures have been recorded with no success in between;
\* fewer leave it CLOSED, and a success while CLOSED resets failureCount to 0.
OpensAfterThresholdFailures ==
    /\ []ClosedCountsConsecutive
    /\ [][OpensAtThreshold]_vars
    /\ [][SuccessResetsWhileClosed]_vars

\* the second consecutive failure has just opened a breaker of threshold 2
OpenedBySecondFailure ==
    /\ bCfg.failureThreshold = 2
    /\ bState = "OPEN"
    /\ bLog.ev = "failure"
    /\ bLog.consec = 2
    /\ failureCount = 2

\* the step is an execute() reaching its OPEN test
IsExecuteStart == bLog'.ev \in {"rejected", "admitted"}

ExecuteWhileOpen ==
    (IsExecuteStart /\ bLog'.reported = "OPEN") =>
        /\ bLog'.ev = "rejected"
        /\ UNCHANGED <<opCalls, inflight, failureCount, successCount, lastFailureTime>>

\* C9: an execute() that finds the breaker reported OPEN rejects at once:
\* the operation is not invoked and failureCount, successCount and
\* lastFailureTime are left as they were.
RejectsWhileOpen == [][ExecuteWhileOpen]_vars

\* an execute() has just been rejected by an open breaker
RejectedByOpenBreaker ==
    /\ bState = "OPEN"
    /\ bLog.ev = "rejected"
    /\ bLog.reported = "OPEN"
    /\ failureCount >= bCfg.failureThreshold

Elapsed == now - lastFailureTime

\* OPEN is left for HALF_OPEN, and a call admitted, only past the timeout
NotBeforeTimeout ==
    (bState = "OPEN" /\ (bState' = "HALF_OPEN" \/ bLog'.ev = "admitted")) =>
        Elapsed > bCfg.timeout

\* past the timeout, getState() and execute() report HALF_OPEN and admit
HalfOpenAfterTimeout ==
    (bState = "OPEN" /\ Elapsed > bCfg.timeout
        /\ bLog'.ev \in {"getState", "rejected", "admitted"}) =>
        /\ bState' = "HALF_OPEN"
        /\ bLog'.reported = "HALF_OPEN"
        /\ bLog'.ev # "rejected"

\* C10: an open breaker is not reported HALF_OPEN and admits no call until
\* strictly more than timeout has passed since lastFailureTime; once it has,
\* the next getState() or execute() reports HALF_OPEN and admits the call,
\* with no timer involved.
LazyHalfOpen == [][NotBeforeTimeout]_vars /\ [][HalfOpenAfterTimeout]_vars

\* a call admitted in HALF_OPEN at the first instant past the timeout
AdmittedJustAfterTimeout ==
    /\ bLog.ev = "admitted"
    /\ bLog.reported = "HALF_OPEN"
    /\ failureCount >= bCfg.failureThreshold
    /\ Elapsed = bCfg.timeout + 1

\* the step records the success / the failure of an admitted call
IsSuccessStep == inflight' = inflight - 1 /\ bLog'.ev = "success"
IsFailureStep == inflight' = inflight - 1 /\ bLog'.ev = "failure"

HalfOpenSuccess ==
    (bState = "HALF_OPEN" /\ IsSuccessStep) =>
        IF successCount + 1 >= bCfg.successThreshold
        THEN bState' = "CLOSED" /\ failureCount' = 0 /\ successCount' = 0
        ELSE bState' = "HALF_OPEN" /\ successCount' = successCount + 1
                /\ failureCount' = failureCount

\* C11: a success recorded while HALF_OPEN increments successCount; when it
\* reaches successThreshold the breaker becomes CLOSED with failureCount = 0
\* and successCount = 0, otherwise it stays HALF_OPEN.
ClosesAfterSuccessThreshold == [][HalfOpenSuccess]_vars

\* the second success in HALF_OPEN has just closed a breaker of successThreshold 2
ClosedBySecondSuccess ==
    /\ bCfg.successThreshold = 2
    /\ bLog.ev = "success"
    /\ bLog.reported = "HALF_OPEN"
    /\ bState = "CLOSED"
    /\ failureCount = 0
    /\ successCount = 0
    /\ lastFailureTime >= StartTime

HalfOpenFailure == (bState = "HALF_OPEN" /\ IsFailureStep) => bState' = "OPEN"

\* C12 (as stated): every failure recorded while the breaker is HALF_OPEN
\* leaves it OPEN.
HalfOpenFailureReopens == [][HalfOpenFailure]_vars

NormDone(id) == norm.pc = "done" /\ norm.id = id

\* the windows of a record
Windows(rec) == { w \in {rec.primary, rec.secondary, rec.tertiary} : w # None }

\* C13 (as stated): every window of every record a provider makes of a raw
\* payload has 0 <= usedPercent <= 100.
UsedPercentInRange ==
    norm.pc = "done" => \A w \in Windows(norm.out[1]) : 0 <= w[1] /\ w[1] <= 100

\* a pair [used, limit] or [usage, limit] with limit 0 gave the window w
ZeroLimitGivesZero(pair, w) == (pair # None /\ pair[1].limit = 0) => w = Some(0)

UsedOfRemaining(r) == IF r < 0 THEN 100 ELSE IF r > 100 THEN 0 ELSE 100 - r

\* C15: a language-server quota with remaining fraction r is normalized to
\* usedPercent = 100 - 100 r for r in [0, 1] (0.73 gives 27), and to the
\* nearer end of [0, 100] for r outside [0, 1].
RemainingFractionNormalized ==
    (NormDone("antigravity") /\ Len(norm.raw[1]) = 1 /\ norm.raw[1][1].rem # None) =>
        norm.out[1].primary = Some(UsedOfRemaining(norm.raw[1][1].rem[1]))

\* remaining 0.73 was normalized to 27
Remaining73Gives27 ==
    /\ NormDone("antigravity")
    /\ Len(norm.raw[1]) = 1
    /\ norm.raw[1][1].rem = Some(73)
    /\ norm.out[1].primary = Some(27)

IsClaudePlain(q) == "claude" \in LabelWords(q.label) /\ "thinking" \notin LabelWords(q.label)
IsProLow(q) == {"pro", "low"} \subseteq LabelWords(q.label)
IsFlash(q) == {"gemini", "flash"} \subseteq LabelWords(q.label)

\* the index of the first quota of raw in category P, 0 when there is none
FirstIndex(raw, P(_)) ==
    IF \E i \in 1..Len(raw) : P(raw[i])
    THEN CHOOSE i \in 1..Len(raw) : P(raw[i]) /\ \A j \in 1..(i - 1) : ~P(raw[j])
    ELSE 0

\* the window a quota is shown as
WindowOf(q) == Some(UsedOfRemaining(IF q.rem = None THEN 0 ELSE q.rem[1]))

\* the windows of rec in the order primary, secondary, tertiary
WindowSeq(rec) ==
    (IF rec.primary = None THEN << >> ELSE << rec.primary >>)
        \o (IF rec.secondary = None THEN << >> ELSE << rec.secondary >>)
        \o (IF rec.tertiary = None THEN << >> ELSE << rec.tertiary >>)

\* idx lists positions of raw; the windows are those quotas in that order
ShowsQuotas(rec, raw, idx) ==
    /\ Len(WindowSeq(rec)) = Len(idx)
    /\ \A k \in 1..Len(idx) : WindowSeq(rec)[k] = WindowOf(raw[idx[k]])
    /\ (rec.primary = None => rec.secondary = None) /\ (rec.secondary = None => rec.tertiary = None)

\* the positions i of idx without 0 and without repetition of an earlier one
RECURSIVE Positions(_)
Positions(idx) ==
    IF idx = << >> THEN << >>
    ELSE LET front == Positions(SubSeq(idx, 1, Len(idx) - 1))
             last == idx[Len(idx)]
         IN  IF last = 0 \/ \E k \in 1..Len(front) : front[k] = last
             THEN front ELSE Append(front, last)

RemVal(q) == IF q.rem = None THEN 0 ELSE q.rem[1]

\* idx picks the up-to-three quotas with the least remaining, in ascending order
LeastRemaining(raw, idx) ==
    /\ Len(idx) = (IF Len(raw) < 3 THEN Len(raw) ELSE 3)
    /\ \A k \in 1..Len(idx) : idx[k] \in 1..Len(raw)
    /\ \A k, l \in 1..Len(idx) : k < l =>
          idx[k] # idx[l] /\ RemVal(raw[idx[k]]) <= RemVal(raw[idx[l]])
    /\ \A j \in 1..Len(raw) :
          (\A k \in 1..Len(idx) : idx[k] # j) =>
              \A k \in 1..Len(idx) : RemVal(raw[idx[k]]) <= RemVal(raw[j])

\* C16: the windows shown are at most three distinct quotas of the response:
\* the first Claude quota without thinking, then the first Pro-Low quota,
\* then the first Gemini Flash quota, each at most once, as primary,
\* secondary, tertiary in that order; when the response has none of these,
\* the up-to-three quotas with the least remaining, least first.
WindowSelectionByPriority ==
    NormDone("antigravity") =>
        LET raw == norm.raw[1]
            out == norm.out[1]
            pref == Positions(<< FirstIndex(raw, IsClaudePlain), FirstIndex(raw, IsProLow),
                                 FirstIndex(raw, IsFlash) >>)
        IN  IF pref # << >> THEN ShowsQuotas(out, raw, pref)
            ELSE \E idx \in UNION { [1..n -> 1..Len(raw)] : n \in 0..3 } :
                     LeastRemaining(raw, idx) /\ ShowsQuotas(out, raw, idx)

\* four quotas, none of a preferred category: the three with least remaining are shown
FallbackPicksThreeOfFour ==
    /\ NormDone("antigravity")
    /\ Len(norm.raw[1]) = 4
    /\ \A i \in 1..4 : LET q == norm.raw[1][i]
                       IN  ~IsClaudePlain(q) /\ ~IsProLow(q) /\ ~IsFlash(q)
    /\ norm.out[1].tertiary # None
    /\ norm.out[1].primary # norm.out[1].tertiary

CookieProviders == {"claude", "cursor"}

\* the step starts a fetch of provider i in invocation c
FetchStarts(c, i) == i \notin call[c].pend /\ i \in call'[c].pend

ExpiredMeansAbsent ==
    \A c \in Calls, i \in CookieProviders :
        (FetchStarts(c, i) /\ store[i] \in {"expired", "stale"}) =>
            (store'[i] = "none" /\ call'[c].phase[i] # "net")

\* C17 (as stated): a Claude or Cursor fetch that finds stored session
\* material whose expiration is in the past deletes the session file and
\* goes on to its next strategy without sending a cookie header.
ExpiredSessionDiscarded == [][ExpiredMeansAbsent]_vars


\* getToken() has returned while an environment override was set
OverrideSet == cred.pc = "done" /\ cred.in[1].override # None

\* C18 (as stated): when an environment override credential is set,
\* credential resolution returns the override value, whatever stored token
\* or command-line-tool session exists
OverrideConsultedFirst == OverrideSet => cred.token = cred.in[1].override


\* the step is a resumption of fetch() that removes the stored credential
DeletesCredential == fx.pc = "run" /\ fx.st # "none" /\ fx'.st = "none"

DeletedOnlyWhenUnauthorized == DeletesCredential => Unauthorized(fx'.last[1])

\* C19 (as stated): an adapter deletes its stored credential during fetch
\* only when an explicit unauthorized response (401/403) was received; after
\* any other failure the stored credential is unchanged
CredentialKeptUnlessUnauthorized == [][DeletedOnlyWhenUnauthorized]_vars

\* fetch() has settled after one of its requests was answered 401 or 403
UnauthorizedAnswered == fx.pc = "done" /\ fx.unauth

\* C20 (as stated): when the data source answers 401/403, the adapter
\* deletes the stored credential and the record it finally returns has
\* needsLogin = true
UnauthorizedInvalidates ==
    UnauthorizedAnswered =>
        /\ fx.st = "none"
        /\ fx.out[1].kind = "return"
        /\ fx.out[1].rec[1].needsLogin = Some(TRUE)


\* fetch() has settled after trying every data source it has, none of which
\* gave usage data
StrategiesExhausted ==
    /\ fx.pc = "done"
    /\ fx.last # None
    /\ LET e == fx.last[1]
       IN  \/ fx.id = "codex" /\ e.ok /\ e.src = "none"
           \/ fx.id = "gemini" /\ e.ok /\ ~(e.cred /\ e.net = "200") /\ ~e.ok2
           \/ fx.id \in {"claude", "cursor"} /\ fx.st0 \in {"none", "expired"}
           \/ fx.id = "copilot" /\ fx.st0 = "none" /\ e.src = "none"
           \/ fx.id = "zai" /\ ~e.cred

\* C21 (as stated): whenever every data-source strategy of an adapter has
\* been tried and none produced usage data, the record returned by fetch has
\* needsLogin = true and a non-empty instruction in error
ExhaustedMeansNeedsLogin ==
    StrategiesExhausted =>
        /\ fx.out[1].kind = "return"
        /\ fx.out[1].rec[1].needsLogin = Some(TRUE)
        /\ fx.out[1].rec[1].error # None
        /\ fx.out[1].rec[1].error # Some("")


\* in a refreshAll() cycle the fetch of provider i settled on a request that
\* got no HTTP response (axios: "Network Error")
TransientFailure(c, i) ==
    /\ call[c].kind = "all"
    /\ i \in call[c].ids \cap Registered
    /\ call[c].out[i] # None
    /\ LET o == call[c].out[i][1]
       IN  \/ o.kind = "raise" /\ o.msg = Some("Network Error")
           \/ o.kind = "return" /\ o.rec[1].error = Some("Network Error")

\* C22 (as stated): when a service's only data source fails with a
\* transient network error, the record cached for it after refreshAll() has
\* error set and needsLogin not true
TransientNotAuthFailure ==
    \A c \in Calls, i \in Registered :
        TransientFailure(c, i) =>
            /\ latestUsage[i] # None
            /\ latestUsage[i][1].error # None
            /\ latestUsage[i][1].needsLogin # Some(TRUE)


\* a record that asks for a login carries no primary window
NoDataWithNeedsLogin(rec) == rec.needsLogin = Some(TRUE) => rec.primary = None

\* C23: in every record an adapter returns, refreshProvider() returns or the
\* cache holds, needsLogin = true implies that no primary window is present
NeedsLoginCarriesNoPrimary ==
    /\ \A i \in AllIds : latestUsage[i] # None => NoDataWithNeedsLogin(latestUsage[i][1])
    /\ \A c \in Calls :
          /\ call[c].ret # None => NoDataWithNeedsLogin(call[c].ret[1])
          /\ \A i \in Registered :
                (call[c].out[i] # None /\ call[c].out[i][1].kind = "return") =>
                    NoDataWithNeedsLogin(call[c].out[i][1].rec[1])

\* a cycle has cached a sign-in record beside a record with usage data
SignInRecordBesideData ==
    \E i, j \in Registered :
        /\ latestUsage[i] # None
        /\ latestUsage[i][1].needsLogin = Some(TRUE)
        /\ latestUsage[i][1].primary = None
        /\ latestUsage[j] # None
        /\ latestUsage[j][1].primary # None


\* flow f still has its timer running
Polls(f) == lg.flow[f].timer

\* C24 (as stated): when openLoginWindow() is called while an earlier flow
\* of the same service is pending, the earlier flow is replaced: from then on
\* at most one flow polls for a credential, and the earlier flow can no
\* longer save a credential or close the new flow's window
EarlierFlowReplaced ==
    \A f \in Flows :
        Superseded(lg, f) => (~Polls(f) /\ f \notin lg.late)


\* C25 (as stated): isAvailable() is side-effect free: for every adapter and
\* every state of the credential store, the stored credential is the same
\* before and after the call
ProbeKeepsCredential == fx.pc = "probed" => fx.st = fx.st0


\* the step on which refreshProvider() of invocation c returns
RefreshOneReturns(c) ==
    /\ call[c].kind = "one"
    /\ call[c].status = "running"
    /\ call'[c].status = "done"

ReturnsWhatItCached ==
    \A c \in Calls, i \in Registered :
        (RefreshOneReturns(c) /\ i \in call[c].ids) =>
            LET o == call'[c].out[i][1]
            IN  /\ call'[c].ret # None
                /\ o.kind = "return" => call'[c].ret = o.rec
                /\ o.kind = "raise" => call'[c].ret = Some(ErrorRecord(i, o.msg[1]))
                /\ latestUsage'[i] = call'[c].ret
                /\ \A j \in AllIds \ {i} : latestUsage'[j] = latestUsage[j]

\* C26: refreshProvider(id) for a registered id returns a record, which is
\* the one it wrote to the cache under id (the adapter's record, or a
\* synthesized error record if the adapter raised), and it writes no other
\* cache entry
RefreshOneReturnsCachedRecord == [][ReturnsWhatItCached]_vars

\* refreshProvider() returned the error record of a raised fetch() while the
\* cache kept another provider's earlier record
ErrorRecordReturnedBesidePrior ==
    \E c \in Calls, i \in Registered : \E j \in Registered \ {i} :
        /\ call[c].kind = "one"
        /\ call[c].status = "done"
        /\ call[c].ids = {i}
        /\ call[c].out[i] # None
        /\ call[c].out[i][1].kind = "raise"
        /\ call[c].ret = latestUsage[i]
        /\ call[c].ret # None
        /\ latestUsage[j] = Some(PriorRecord(j))


\* a refresh has written a cache entry for id: its task has settled
EverWritten(id) ==
    \E c \in Calls : id \in Registered /\ call[c].out[id] # None

\* a step leaves the entries of a snapshot taken earlier as they were
SnapshotKept ==
    view # None =>
        SnapshotEntries(view'[1], latestUsage') = SnapshotEntries(view[1], latestUsage)

NotPresentIffNeverWritten ==
    \A id \in AllIds : (GetProviderUsage(id) = None) <=> ~EverWritten(id)

\* C27: a snapshot returned by getLatestUsage() is never changed by a later
\* refresh, and getProviderUsage(id) returns not-present exactly when no
\* refresh has written an entry for id
SnapshotImmutable ==
    [][SnapshotKept /\ NotPresentIffNeverWritten /\ NotPresentIffNeverWritten']_vars

\* a snapshot taken between two writes of a cycle holds the first entry and
\* not the second
SnapshotOlderThanCache ==
    /\ view # None
    /\ \E i, j \in Registered :
          /\ SnapshotEntries(view[1], latestUsage)[i] # None
          /\ SnapshotEntries(view[1], latestUsage)[j] = None
          /\ latestUsage[j] # None


\* the service's calls have failed failureThreshold times in a row
FailedThresholdTimes == fx.fails >= DefaultFailureThreshold

\* a resumption of fetch() in that situation makes no outbound call
NoCallAfterThreshold ==
    (FailedThresholdTimes /\ fx.pc = "run" /\ fx'.pc \in {"run", "done"}) =>
        ~OutboundCall(fx.id, fx.phase, fx'.last[1])

\* C28 (as stated): every outbound call of an adapter goes through the
\* service's circuit breaker: once its calls have failed failureThreshold
\* times in a row across refresh cycles, a further refresh attempts no
\* outbound call (no time passes between the cycles of this behaviour)
BreakerGuardsAdapterCalls == [][NoCallAfterThreshold]_vars


\* the delay the k-th sleep of this call is computed from
NominalDelay(k) ==
    LET grown == rCfg.baseDelay * Pow(rCfg.backoffMultiplier, k - 1)
    IN  IF grown <= rCfg.maxDelay THEN grown ELSE rCfg.maxDelay

\* every sleep so far lies between two attempts: as many sleeps as attempts
\* while another attempt is still to come, one fewer once the call has settled
SleepsBetweenAttempts ==
    /\ rPc = "call" => Len(rLog) = rInv
    /\ rPc = "sleep" => /\ Len(rLog) = rInv
                        /\ rInv >= 1
                        /\ rAttempt < rCfg.maxAttempts
    /\ rPc \in {"returned", "thrown"} =>
          Len(rLog) = (IF rInv = 0 THEN 0 ELSE rInv - 1)

\* C29: withRetry sleeps only between two consecutive attempts, never before
\* the first attempt and never after the attempt whose failure it rethrows,
\* and the sleep before attempt n+1 lasts at least
\* d = min(baseDelay * backoffMultiplier^(n-1), maxDelay) and at most 1.3 * d
SleepsOnlyBetweenAttemptsWithinBounds ==
    /\ SleepsBetweenAttempts
    /\ \A n \in 1..Len(rLog) :
          /\ NominalDelay(n) <= rLog[n]
          /\ 10 * rLog[n] <= 13 * NominalDelay(n)

\* two sleeps with the largest jitter, the second one capped by maxDelay, and
\* the third attempt rethrown with no sleep after it
CappedSleepThenRethrow ==
    /\ rPc = "thrown"
    /\ rInv = 3
    /\ rCfg.maxDelay = 1500
    /\ rLog = <<1299, 1949>>


\* the k-th invocation rejected with an error that has no response
NoStatusAt(k) == ScriptAt(k) = "nostatus"

\* a failure without a status is rethrown only by the maxAttempts-th attempt
NoStatusThrownOnlyAtLast ==
    (rPc = "thrown" /\ rInv >= 1 /\ NoStatusAt(rInv)) => rInv = rCfg.maxAttempts

\* every earlier attempt that failed without a status was followed by a
\* backoff sleep, and the call has not settled before the next attempt
NoStatusFollowedBySleep ==
    \A k \in 1..rInv :
        (NoStatusAt(k) /\ k < rCfg.maxAttempts) =>
            /\ Len(rLog) >= k
            /\ rInv > k \/ rPc \in {"sleep", "call"}

\* C30: a failure that carries no status code is treated as retryable by
\* withRetry: it is retried, with backoff, until maxAttempts invocations have
\* been made, and is never short-circuited after one attempt
NoStatusFailureRetried == NoStatusThrownOnlyAtLast /\ NoStatusFollowedBySleep

\* three network errors with maxAttempts = 3 and the default retryOn: two
\* sleeps, three invocations, the third error thrown
NetworkErrorRetriedToTheEnd ==
    /\ rCfg.maxAttempts = 3
    /\ rCfg.retryOn = DefaultRetryOn
    /\ \A k \in 1..3 : NoStatusAt(k)
    /\ rPc = "thrown"
    /\ rInv = 3
    /\ Len(rLog) = 2
    /\ rOut = Some(RetryError(3))


\* C31 (as stated): with several execute() calls in flight on one breaker, the
\* breaker is OPEN or HALF_OPEN only if failureCount >= failureThreshold: a
\* call admitted before the breaker opened that succeeds afterwards does not
\* reset the failure count of an open breaker
OpenOnlyWithThresholdFailures ==
    bState \in {"OPEN", "HALF_OPEN"} => failureCount >= bCfg.failureThreshold

\* C32 (as stated): successes counted in an earlier HALF_OPEN period that
\* ended with a failure do not count towards closing: successCount is 0
\* whenever the breaker is OPEN or CLOSED
SuccessCountZeroUnlessHalfOpen ==
    bState \in {"OPEN", "CLOSED"} => successCount = 0


\* C33: in every reachable state of the orchestrator every key of the cache
\* is the id of a registered adapter and the record stored under key k has
\* providerId = k, after any interleaving of refreshAll() and refreshOne()
CacheKeyedByRegisteredId ==
    \A k \in AllIds :
        latestUsage[k] # None =>
            /\ k \in Registered
            /\ latestUsage[k][1].providerId = k

\* a refreshProvider() that began after a refreshAll() of the same provider
\* has cached the record of a raised fetch while the refreshAll() still runs
ErrorCachedDuringRefreshAll ==
    \E i \in Registered :
        /\ call[1].kind = "all" /\ call[1].status = "running" /\ i \in call[1].pend
        /\ call[2].kind = "one" /\ call[2].status = "done"
        /\ call[2].out[i] # None /\ call[2].out[i][1].kind = "raise"
        /\ latestUsage[i] # None


\* the fetch() of provider i in call c settles in this step, with a failure
FetchFailsNow(c, i) ==
    /\ call[c].out[i] = None
    /\ call'[c].out[i] # None
    /\ LET o == call'[c].out[i][1]
       IN  o.kind = "raise" \/ o.rec[1].error # None

\* the entry written for a failed fetch is the failure alone
FailedWriteIsFresh ==
    \A c \in PairCalls, i \in Registered :
        FetchFailsNow(c, i) =>
            /\ latestUsage'[i] # None
            /\ latestUsage'[i][1].error # None
            /\ latestUsage'[i][1].primary = None
            /\ latestUsage'[i][1].secondary = None
            /\ latestUsage'[i][1].tertiary = None

\* C34: each cache write replaces the whole prior entry with a freshly
\* created record: after a refresh of id whose fetch failed, cache[id]
\* carries no window data of an earlier successful fetch of id
FailedRefreshReplacesEntry == [][FailedWriteIsFresh]_vars

\* the first call cached usage windows, the second call's fetch of the same
\* provider failed afterwards, and the entry is the failure without windows
FailureCachedOverData ==
    \E i \in Registered :
        /\ call[1].status = "done" /\ call[2].status = "done"
        /\ call[1].out[i] # None /\ call[1].out[i][1].kind = "return"
        /\ call[1].out[i][1].rec[1].primary # None
        /\ call[2].out[i] # None /\ call[2].out[i][1].kind = "raise"
        /\ latestUsage[i] # None
        /\ latestUsage[i][1].error = call[2].out[i][1].msg
        /\ latestUsage[i][1].primary = None


\* the record a task ends with for outcome o of provider i's fetch
OutcomeRecord(i, o) ==
    IF o.kind = "return" THEN o.rec[1]
    ELSE [providerId |-> i, primary |-> None, secondary |-> None,
          tertiary |-> None, error |-> o.msg, needsLogin |-> None]

\* the record of the settled fetch of i in call c
SettledRecord(c, i) == OutcomeRecord(i, call[c].out[i][1])

\* provider i's fetch has settled in a refreshAll() that is still running
SettledInRunningCycle(c, i) ==
    /\ call[c].kind = "all"
    /\ call[c].status = "running"
    /\ call[c].out[i] # None

\* the step in which provider i's fetch settles in a refreshAll() puts its
\* record where getProviderUsage(i) reads it, whatever else is pending
ReadableOnceSettled ==
    \A c \in Calls, i \in Registered :
        (call[c].kind = "all" /\ call[c].out[i] = None /\ call'[c].out[i] # None) =>
            latestUsage'[i] = Some(OutcomeRecord(i, call'[c].out[i][1]))

\* a getLatestUsage() holds every entry getProviderUsage() answers with at
\* that time, those of a running cycle included
SnapshotHoldsSettled ==
    (view = None /\ view' # None) =>
        \A i \in Registered :
            /\ SnapshotEntries(view'[1], latestUsage')[i] = GetProviderUsage(i)
            /\ \A c \in Calls :
                  SettledInRunningCycle(c, i) => GetProviderUsage(i) # None

\* C35: within one refreshAll() cycle the record of a service whose fetch has
\* completed is readable through getProviderUsage()/getLatestUsage() before
\* the fetches of slower services of the cycle have completed: delivery of
\* one service's result never waits for another service
DeliveredWithoutWaiting ==
    [][ReadableOnceSettled /\ SnapshotHoldsSettled]_vars

\* a snapshot taken while the second provider of the cycle is still fetching
\* holds the first provider's record
SnapshotBeforeSlowerProvider ==
    /\ view # None
    /\ \E i, j \in Registered :
          /\ i # j
          /\ call[1].kind = "all" /\ call[1].status = "running"
          /\ call[1].out[i] # None
          /\ j \in call[1].pend
          /\ SnapshotEntries(view[1], latestUsage)[i] # None
          /\ latestUsage[j] = None


\* the step in which a fetch of i settles leaves exactly its record under i
WriteIsWholeRecord ==
    \A c \in PairCalls, i \in Registered :
        (call[c].out[i] = None /\ call'[c].out[i] # None) =>
            latestUsage'[i] = Some(OutcomeRecord(i, call'[c].out[i][1]))

\* once the overlapping refreshAll() and refreshProvider(i) calls have all
\* completed, the entry of i is the record of one of their fetches of i
EntryIsOneOfTwo ==
    \A i \in Registered :
        (/\ \A c \in PairCalls : call[c].status # "running"
         /\ \E c \in PairCalls : call[c].out[i] # None) =>
            latestUsage[i] \in { Some(SettledRecord(c, i)) :
                                    c \in { d \in PairCalls : call[d].out[i] # None } }

\* C36: when refreshAll() and refreshOne(id) are in flight at once for the
\* same id, after both have completed cache[id] is exactly the complete
\* record returned by one of the two fetches, the one whose write happened
\* last, and never a combination of fields of both
LastWriteWinsWhole == [][WriteIsWholeRecord /\ EntryIsOneOfTwo']_vars

\* refreshProvider(i) began after refreshAll() and both are done with
\* different records; the entry is refreshAll()'s, so its fetch settled last
\* and the two calls overlapped
EarlierCallWroteLast ==
    \E i \in Registered :
        /\ call[1].kind = "all" /\ call[1].status = "done"
        /\ call[2].kind = "one" /\ call[2].status = "done"
        /\ call[1].out[i] # None /\ call[2].out[i] # None
        /\ SettledRecord(1, i) # SettledRecord(2, i)
        /\ SettledRecord(1, i).error = None
        /\ SettledRecord(2, i).error # None
        /\ latestUsage[i] = Some(SettledRecord(1, i))


\* a refreshAll() beginning in this step starts one fetch for each registered
\* id of the enabled set as it is now, and for no other id
StartsEnabledNow ==
    \A c \in PairCalls :
        (call[c].status = "idle" /\ call'[c].status = "running") =>
            /\ call'[c].kind = "all"
            /\ call'[c].pend = enabled \cap Registered
            /\ \A i \in Registered \ enabled : call'[c].phase[i] = "idle"

\* an entry changes only for an id a running refreshAll() is fetching, and no
\* entry is ever removed
OthersUntouched ==
    \A i \in AllIds :
        /\ latestUsage'[i] # latestUsage[i] =>
              \E c \in PairCalls : call[c].status = "running" /\ i \in call[c].pend
        /\ latestUsage[i] # None => latestUsage'[i] # None

\* C37: each refreshAll() call fetches exactly the registered ids that are in
\* the enabled set as configured at the time of that call (a change of the
\* set between two calls is honoured by the second call) and leaves the
\* cache entries of all other ids unchanged: entries of services no longer
\* enabled are neither refreshed nor removed
RefreshAllHonoursEnabledSet == [][StartsEnabledNow /\ OthersUntouched]_vars

\* two providers were refreshed by the first cycle; one was then disabled and
\* the second cycle refreshed the other only, the disabled one's entry stays
DisabledEntryKept ==
    \E i, j \in Registered :
        /\ i # j
        /\ call[1].status = "done" /\ call[1].ids = {i, j}
        /\ call[2].status = "done" /\ call[2].ids = {i}
        /\ call[2].out[i] # None /\ call[2].out[j] = None
        /\ enabled = {i}
        /\ latestUsage[j] = Some(SettledRecord(1, j))
        /\ latestUsage[i] = Some(SettledRecord(2, i))
        /\ SettledRecord(1, i) # SettledRecord(2, i)


\* the Claude fetch() resumes in this step with the answer of a data source
ClaudeSourceAnswers(phase) ==
    /\ fx.id = "claude"
    /\ fx.pc = "run"
    /\ fx.phase = phase
    /\ fx'.pc \in {"run", "done"}

\* claude.ai is asked first: its data ends the fetch with its record, any
\* other answer leads to the console with the session kept
ClaudeAiFirst ==
    ClaudeSourceAnswers("net") =>
        IF fx'.last[1].net = "200"
        THEN /\ fx'.pc = "done"
             /\ fx'.out = Some(Return(ClaudeParseUsageResponse(fx'.last[1].body[1])))
        ELSE /\ fx'.pc = "run"
             /\ fx'.phase = "net2"
             /\ fx'.out = None
             /\ fx'.st = fx.st

\* the console is asked only after claude.ai gave no data, and its data
\* becomes the record
ConsoleSecond ==
    /\ (fx.id = "claude" /\ fx'.phase = "net2" /\ fx.phase # "net2") =>
          (fx.phase = "net" /\ fx'.last[1].net # "200")
    /\ ClaudeSourceAnswers("net2") =>
          /\ fx'.pc = "done"
          /\ fx'.out[1].kind = "return"
          /\ IF fx'.last[1].net2 = "200"
             THEN fx'.out = Some(Return(ClaudeParseUsageResponse(fx'.last[1].body[1])))
             ELSE fx'.out[1].rec[1].primary = None

\* C38: in the Claude adapter with a resolved cookie credential the data
\* sources are tried strictly in order (claude.ai, then console): a later
\* source is called only if every earlier one yielded no data, the first
\* source that yields data determines the returned record, and an
\* unauthorized (401/403) or otherwise failed answer of an earlier source
\* advances to the next source instead of ending the fetch
ClaudeSourcesInOrder == [][ClaudeAiFirst /\ ConsoleSecond]_vars

\* claude.ai answered 401 or 403 and the record is the console's data
ConsoleDataAfterUnauthorized ==
    /\ fx.id = "claude"
    /\ fx.pc = "done"
    /\ fx.unauth
    /\ fx.last[1].net2 = "200"
    /\ fx.out[1].rec[1].primary # None
    /\ fx.st = "valid"


\* the promise of flow f has been settled
Resolved(f) == lg.flow[f].result # None

\* C39 (as stated): every started login flow eventually completes: once its
\* window is gone (closed by the user, by a newer flow or after a saved
\* credential) the promise returned by openLoginWindow() resolves; it never
\* stays pending forever
LoginFlowCompletes ==
    \A f \in Flows : (lg.flow[f].pc # "idle" /\ IsDestroyed(lg, f)) ~> Resolved(f)


\* the token file was written by a login flow after fetch() had read the
\* token it is using
SavedDuringFetch ==
    /\ fx.id = "copilot"
    /\ fx.pc = "run"
    /\ fx.st = "login"
    /\ fx.st0 # "login"

LoginTokenKept == SavedDuringFetch => fx'.st # "none"

\* C40 (as stated): a credential saved by a login flow is never deleted by a
\* fetch that started before that login completed: a Copilot fetch in flight
\* with the previous token that receives 401, 403 or 404 does not remove the
\* newly saved token from storage
LoginTokenSurvivesFetch == [][LoginTokenKept]_vars

====
